---- MODULE Spec2Model ----
(***************************************************************************)
(* Brace expansion (crate brace_expand_2): tokenizer, AST builder, size    *)
(* estimators, the odometer state machines and the iterator facade.        *)
(* Also the bruteforcer's "P[...]" and "W[...]" substitutions and the      *)
(* djb2 hash functions (crate djb2_utils), each under its own              *)
(* specification.                                                          *)
(* Text is modelled as a sequence of one-character strings; usize indices  *)
(* are kept 0-based as in the source (tokens[i] is TokenAt(tokens, i)).    *)
(***************************************************************************)
EXTENDS Integers, Sequences, FiniteSets, TLC

\* ------------------------------------------------------------------ bounds
MaxLen == 4
MaxExtraCalls == 2

\* ------------------------------------------------------------------ inputs
Alphabet == {"a", "{", "}", ",", "\\"}

ShortPatterns == UNION {[1..k -> Alphabet] : k \in 0..MaxLen}

ScenarioA == <<"a", "{", "b", ",", "c", "}", "d">>
ScenarioB == <<"{", "a", ",", "b", "}", "c", "{", "e", ",", "f", "{", "g", ",", "h", "}", "}">>
ScenarioC == <<"a", "{", ",", "b", ",", ",", "c", ",", "}", "d">>
ScenarioD == <<"{", "a", "\\", ",", ",", "b", "\\", ",", "}", "c">>
ScenarioE == <<"a", "}", "b">>
ScenarioF == <<"{", "a", "b", ",", "c", "}", "{", "d", ",", "{", "e", ",", "f", "g">>

ScenarioG == <<"{", ",", "a", "}", "{", "b", ",", "{", "c", ",", "}", ",", "d", "}">>

\* a literal followed by two groups side by side
ScenarioH == <<"a", "{", ",", "b", "}", "{", ",", "c", "}">>
Scenarios == {ScenarioA, ScenarioB, ScenarioC, ScenarioD, ScenarioE, ScenarioF, ScenarioG,
              ScenarioH}

Patterns == ShortPatterns \cup Scenarios

JunkBuffers == {<<"x", "y">>}

\* ------------------------------------------------------------------ tokenizer.rs
OpenBrace == [type |-> "OpenBrace", s |-> <<>>]
CloseBrace == [type |-> "CloseBrace", s |-> <<>>]
Comma == [type |-> "Comma", s |-> <<>>]
Term(s) == [type |-> "Term", s |-> s]

\* if let Some(Token::Term(s)) = tokens.last_mut() { s.push(c) } else { tokens.push(Term(c)) }
\* Mutant: every character starts a new Term.
push_char_always_new(tokens, c) == Append(tokens, Term(<<c>>))

push_char(tokens, c) ==
  IF Len(tokens) > 0 /\ tokens[Len(tokens)].type = "Term"
  THEN [tokens EXCEPT ![Len(tokens)].s = Append(@, c)]
  ELSE Append(tokens, Term(<<c>>))

\* One iteration of the loop over the characters: st holds tokens and
\* is_escape_seq.
tokenize_step(st, escape, c) ==
  IF st.is_escape_seq
  THEN [tokens |-> push_char(st.tokens, c), is_escape_seq |-> FALSE]
  ELSE IF c = "{" THEN [tokens |-> Append(st.tokens, OpenBrace), is_escape_seq |-> FALSE]
  ELSE IF c = "}" THEN [tokens |-> Append(st.tokens, CloseBrace), is_escape_seq |-> FALSE]
  ELSE IF c = "," THEN [tokens |-> Append(st.tokens, Comma), is_escape_seq |-> FALSE]
  ELSE IF escape /\ c = "\\" THEN [tokens |-> st.tokens, is_escape_seq |-> TRUE]
  ELSE [tokens |-> push_char(st.tokens, c), is_escape_seq |-> FALSE]

\* The loop over pattern[lo..hi], characters taken in order from state st:
\* the first half of the range, then the second half from where the first
\* half left the state.
RECURSIVE tokenize_loop(_, _, _, _, _)
tokenize_loop(pattern, escape, lo, hi, st) ==
  IF lo > hi THEN st
  ELSE IF lo = hi THEN tokenize_step(st, escape, pattern[lo])
  ELSE LET mid == (lo + hi) \div 2
           first_half == tokenize_loop(pattern, escape, lo, mid, st)
       IN IF first_half.is_escape_seq \in BOOLEAN
          THEN tokenize_loop(pattern, escape, mid + 1, hi, first_half)
          ELSE first_half

tokenize_start == [tokens |-> <<>>, is_escape_seq |-> FALSE]

\* Mutant: the escape flag is ignored and backslash is always ordinary.
tokenize_never_escape(pattern, escape) ==
  tokenize_loop(pattern, FALSE, 1, Len(pattern), tokenize_start).tokens

\* Mutant: the escape flag is ignored and backslash always escapes.
tokenize_always_escape(pattern, escape) ==
  tokenize_loop(pattern, TRUE, 1, Len(pattern), tokenize_start).tokens

\* Mutant: a backslash still pending at the end of the pattern is emitted as
\* an ordinary character.
RECURSIVE pending_escape(_, _, _)
pending_escape(pattern, k, is_escape_seq) ==
  IF k > Len(pattern) THEN is_escape_seq
  ELSE pending_escape(pattern, k + 1, ~is_escape_seq /\ pattern[k] = "\\")

tokenize_flush_pending(pattern, escape) ==
  IF escape /\ pending_escape(pattern, 1, FALSE)
  THEN push_char(tokenize_loop(pattern, escape, 1, Len(pattern), tokenize_start).tokens, "\\")
  ELSE tokenize_loop(pattern, escape, 1, Len(pattern), tokenize_start).tokens

tokenize(pattern, escape) ==
  tokenize_loop(pattern, escape, 1, Len(pattern), tokenize_start).tokens

\* ------------------------------------------------------------------ ast.rs
Leaf(s) == [kind |-> "Leaf", text |-> s, branches |-> <<>>]
Choices(v) == [kind |-> "Choices", text |-> <<>>, branches |-> v]

\* tokens[i] and &tokens[i..] with a 0-based usize index
TokenAt(tokens, i) == tokens[i + 1]
Slice(tokens, i) == SubSeq(tokens, i + 1, Len(tokens))
\* tokens[i] and &tokens[i..] are bounds-checked: tokens[i] panics unless
\* i < tokens.len(), &tokens[i..] unless i <= tokens.len(). A builder that
\* panicked reports it in the panic field of its result.
IndexInRange(tokens, i) == i < Len(tokens)
SliceInRange(tokens, i) == i <= Len(tokens)
\* tokens.get(i) == Some(tok)
GetIs(tokens, i, tok) == i < Len(tokens) /\ tokens[i + 1] = tok

RECURSIVE choices_loop(_, _, _)
RECURSIVE ast_loop(_, _, _)

choices_from_tokens_partial(tokens) == choices_loop(tokens, <<>>, 0)

\* Mutant: a first Term of several characters becomes two Leaf items.
ast_from_tokens_partial_split_leaf(tokens) ==
  LET r == ast_loop(tokens, <<>>, 0) IN
  IF r.ast # <<>> /\ r.ast[1].kind = "Leaf" /\ Len(r.ast[1].text) >= 2
  THEN [ast |-> <<Leaf(<<Head(r.ast[1].text)>>), Leaf(Tail(r.ast[1].text))>> \o Tail(r.ast),
        size |-> r.size, panic |-> r.panic]
  ELSE r

ast_from_tokens_partial(tokens) == ast_loop(tokens, <<>>, 0)

choices_loop(tokens, v, i) ==
  IF ~(i < Len(tokens)) THEN [item |-> Choices(v), size |-> i, panic |-> FALSE]
  ELSE IF ~SliceInRange(tokens, i) THEN [item |-> Choices(v), size |-> i, panic |-> TRUE]
  ELSE LET r == ast_from_tokens_partial(Slice(tokens, i))
           v2 == Append(v, r.ast)
           i2 == i + r.size
       IN IF r.panic THEN [item |-> Choices(v), size |-> i, panic |-> TRUE]
          ELSE IF GetIs(tokens, i2, CloseBrace) THEN [item |-> Choices(v2), size |-> i2, panic |-> FALSE]
          ELSE IF GetIs(tokens, i2, Comma) THEN choices_loop(tokens, v2, i2 + 1)
          ELSE choices_loop(tokens, v2, i2)

ast_loop(tokens, pat, i) ==
  IF ~(i < Len(tokens)) THEN [ast |-> pat, size |-> i, panic |-> FALSE]
  ELSE IF ~IndexInRange(tokens, i) THEN [ast |-> pat, size |-> i, panic |-> TRUE]
  ELSE LET t == TokenAt(tokens, i) IN
    IF t.type = "OpenBrace"
    THEN IF ~SliceInRange(tokens, i + 1) THEN [ast |-> pat, size |-> i, panic |-> TRUE]
         ELSE LET r == choices_from_tokens_partial(Slice(tokens, i + 1))
              IN IF r.panic THEN [ast |-> pat, size |-> i, panic |-> TRUE]
                 ELSE ast_loop(tokens, Append(pat, r.item), (i + 1 + r.size) + 1)
    ELSE IF t.type = "CloseBrace" THEN [ast |-> pat, size |-> i, panic |-> FALSE]
    ELSE IF t.type = "Comma" THEN [ast |-> pat, size |-> i, panic |-> FALSE]
    ELSE ast_loop(tokens, Append(pat, Leaf(t.s)), i + 1)

NoError == [found |-> FALSE, token |-> Comma, position |-> 0]
UnexpectedToken(tok, pos) == [found |-> TRUE, token |-> tok, position |-> pos]

\* Value of the ast and err fields of a builder that panicked.
BuilderPanic == [ok |-> FALSE, ast |-> <<>>, err |-> NoError, panic |-> TRUE]

\* Mutant: a leftover Comma is not reported, only a leftover CloseBrace.
ast_from_tokens_close_only(tokens) ==
  LET r == ast_from_tokens_partial(tokens) IN
  IF r.panic THEN BuilderPanic
  ELSE IF r.size < Len(tokens) /\ TokenAt(tokens, r.size) = CloseBrace
  THEN [ok |-> FALSE, ast |-> <<>>, err |-> UnexpectedToken(TokenAt(tokens, r.size), r.size),
        panic |-> FALSE]
  ELSE [ok |-> TRUE, ast |-> r.ast, err |-> NoError, panic |-> FALSE]

\* Mutant: the leftover test is amt_consumed != tokens.len().
ast_from_tokens_not_equal(tokens) ==
  LET r == ast_from_tokens_partial(tokens) IN
  IF r.panic THEN BuilderPanic
  ELSE IF r.size # Len(tokens)
  THEN IF ~IndexInRange(tokens, r.size) THEN BuilderPanic
       ELSE [ok |-> FALSE, ast |-> <<>>,
             err |-> UnexpectedToken(TokenAt(tokens, r.size), r.size), panic |-> FALSE]
  ELSE [ok |-> TRUE, ast |-> r.ast, err |-> NoError, panic |-> FALSE]

ast_from_tokens(tokens) ==
  LET r == ast_from_tokens_partial(tokens) IN
  IF r.panic THEN BuilderPanic
  ELSE IF r.size < Len(tokens)
  THEN IF ~IndexInRange(tokens, r.size) THEN BuilderPanic
       ELSE [ok |-> FALSE, ast |-> <<>>,
             err |-> UnexpectedToken(TokenAt(tokens, r.size), r.size), panic |-> FALSE]
  ELSE [ok |-> TRUE, ast |-> r.ast, err |-> NoError, panic |-> FALSE]

RECURSIVE ast_max_expansion_length(_)
RECURSIVE ast_num_expansions(_)

\* v.iter().map(f).max().unwrap_or(0), .sum() and .product() as folds over 1..k
RECURSIVE max_of_branches(_, _)
max_of_branches(v, k) ==
  IF k = 0 THEN 0
  ELSE LET m == max_of_branches(v, k - 1)
           x == ast_max_expansion_length(v[k])
       IN IF x > m THEN x ELSE m

RECURSIVE sum_of_branches(_, _)
sum_of_branches(v, k) ==
  IF k = 0 THEN 0 ELSE sum_of_branches(v, k - 1) + ast_num_expansions(v[k])

\* Mutant: the length of a group is taken from its first branch only.
ast_item_max_expansion_length_first_branch(item) ==
  IF item.kind = "Leaf" THEN Len(item.text)
  ELSE IF Len(item.branches) = 0 THEN 0
  ELSE ast_max_expansion_length(item.branches[1])

ast_item_max_expansion_length(item) ==
  IF item.kind = "Leaf" THEN Len(item.text)
  ELSE max_of_branches(item.branches, Len(item.branches))

RECURSIVE sum_of_item_lengths(_, _)
sum_of_item_lengths(ast, k) ==
  IF k = 0 THEN 0
  ELSE sum_of_item_lengths(ast, k - 1) + ast_item_max_expansion_length(ast[k])

ast_max_expansion_length(ast) == sum_of_item_lengths(ast, Len(ast))

ast_item_num_expansions(item) ==
  IF item.kind = "Leaf" THEN 1
  ELSE sum_of_branches(item.branches, Len(item.branches))

RECURSIVE product_of_items(_, _)
product_of_items(ast, k) ==
  IF k = 0 THEN 1
  ELSE product_of_items(ast, k - 1) * ast_item_num_expansions(ast[k])

\* Mutant: the items of a pattern are summed instead of multiplied.
RECURSIVE sum_of_items(_, _)
sum_of_items(ast, k) ==
  IF k = 0 THEN 0
  ELSE sum_of_items(ast, k - 1) + ast_item_num_expansions(ast[k])

ast_num_expansions_sum(ast) == sum_of_items(ast, Len(ast))

ast_num_expansions(ast) == product_of_items(ast, Len(ast))

\* ------------------------------------------------------------------ state_machines.rs
RECURSIVE AstStateMachine_new(_)
RECURSIVE AstStateMachine_reset(_)
RECURSIVE AstStateMachine_fill(_, _)
RECURSIVE AstStateMachine_advance(_)

AstLeafItemStateMachine_new(contents) ==
  [kind |-> "Leaf", contents |-> contents, valid |-> TRUE,
   children |-> <<>>, current_index |-> 0]

AstChoicesItemStateMachine_new(choices) ==
  [kind |-> "Choices", contents |-> <<>>, valid |-> TRUE,
   children |-> [k \in 1..Len(choices) |-> AstStateMachine_new(choices[k])],
   current_index |-> 0]

\* Mutant: reset leaves a Leaf as it is.
AstLeafItemStateMachine_reset_noop(sm) == sm

AstLeafItemStateMachine_reset(sm) == [sm EXCEPT !.valid = TRUE]

\* Mutant: fill overwrites the target instead of appending to it.
AstLeafItemStateMachine_fill_overwrite(sm, target) ==
  IF sm.valid THEN sm.contents ELSE target

AstLeafItemStateMachine_fill(sm, target) ==
  IF sm.valid THEN target \o sm.contents ELSE target

AstLeafItemStateMachine_advance(sm) ==
  [sm |-> [sm EXCEPT !.valid = FALSE], ok |-> FALSE, panic |-> FALSE]

\* Mutant: reset leaves current_index where it is.
AstChoicesItemStateMachine_reset_keep_index(sm) ==
  [sm EXCEPT !.children = [k \in 1..Len(sm.children) |-> AstStateMachine_reset(sm.children[k])]]

AstChoicesItemStateMachine_reset(sm) ==
  [sm EXCEPT !.children = [k \in 1..Len(sm.children) |-> AstStateMachine_reset(sm.children[k])],
             !.current_index = 0]

\* self.children[i] is bounds-checked: it panics unless i < self.children.len().
\* A fill that panicked leaves Poisoned in place of the text; an advance that
\* panicked reports it in the panic field of its result.
InRange(children, i) == i < Len(children)
Poisoned == <<"<panic>">>

\* Mutant: fill without the current_index < len test.
AstChoicesItemStateMachine_fill_unguarded(sm, target) ==
  IF InRange(sm.children, sm.current_index)
  THEN AstStateMachine_fill(sm.children[sm.current_index + 1], target)
  ELSE Poisoned

AstChoicesItemStateMachine_fill(sm, target) ==
  IF sm.current_index < Len(sm.children)
  THEN IF InRange(sm.children, sm.current_index)
       THEN AstStateMachine_fill(sm.children[sm.current_index + 1], target)
       ELSE Poisoned
  ELSE target

AstChoicesItemStateMachine_advance(sm) ==
  IF sm.current_index >= Len(sm.children) THEN [sm |-> sm, ok |-> FALSE, panic |-> FALSE]
  ELSE IF ~InRange(sm.children, sm.current_index) THEN [sm |-> sm, ok |-> FALSE, panic |-> TRUE]
  ELSE LET r == AstStateMachine_advance(sm.children[sm.current_index + 1])
           sm1 == [sm EXCEPT !.children[sm.current_index + 1] = r.sm]
       IN IF r.panic THEN [sm |-> sm1, ok |-> FALSE, panic |-> TRUE]
          ELSE IF r.ok THEN [sm |-> sm1, ok |-> TRUE, panic |-> FALSE]
          ELSE LET sm2 == [sm1 EXCEPT !.current_index = @ + 1]
               IN [sm |-> sm2, ok |-> sm2.current_index < Len(sm2.children), panic |-> FALSE]

AstItemStateMachine_new(item) ==
  IF item.kind = "Leaf" THEN AstLeafItemStateMachine_new(item.text)
  ELSE AstChoicesItemStateMachine_new(item.branches)

AstItemStateMachine_reset(sm) ==
  IF sm.kind = "Leaf" THEN AstLeafItemStateMachine_reset(sm)
  ELSE AstChoicesItemStateMachine_reset(sm)

AstItemStateMachine_fill(sm, target) ==
  IF sm.kind = "Leaf" THEN AstLeafItemStateMachine_fill(sm, target)
  ELSE AstChoicesItemStateMachine_fill(sm, target)

AstItemStateMachine_advance(sm) ==
  IF sm.kind = "Leaf" THEN AstLeafItemStateMachine_advance(sm)
  ELSE AstChoicesItemStateMachine_advance(sm)

AstStateMachine_new(ast) ==
  [children |-> [k \in 1..Len(ast) |-> AstItemStateMachine_new(ast[k])]]

AstStateMachine_reset(sm) ==
  [children |-> [k \in 1..Len(sm.children) |-> AstItemStateMachine_reset(sm.children[k])]]

\* for child in &self.children { child.fill(target) }
RECURSIVE fill_children(_, _, _)
fill_children(children, k, target) ==
  IF k > Len(children) THEN target
  ELSE LET filled == AstItemStateMachine_fill(children[k], target)
       IN IF filled = Poisoned THEN Poisoned
          ELSE fill_children(children, k + 1, filled)

AstStateMachine_fill(sm, target) == fill_children(sm.children, 1, target)

\* Mutant: a child whose advance returned false is not reset.
RECURSIVE advance_children_no_reset(_, _)
advance_children_no_reset(children, k) ==
  IF k = 0 THEN [sm |-> [children |-> children], ok |-> FALSE, panic |-> FALSE]
  ELSE LET r == AstItemStateMachine_advance(children[k])
       IN IF r.ok
          THEN [sm |-> [children |-> [children EXCEPT ![k] = r.sm]], ok |-> TRUE, panic |-> FALSE]
          ELSE advance_children_no_reset([children EXCEPT ![k] = r.sm], k - 1)

\* Mutant: the children are tried from first to last.
RECURSIVE advance_children_forward(_, _)
advance_children_forward(children, j) ==
  IF j > Len(children) THEN [sm |-> [children |-> children], ok |-> FALSE, panic |-> FALSE]
  ELSE LET r == AstItemStateMachine_advance(children[j])
       IN IF r.ok
          THEN [sm |-> [children |-> [children EXCEPT ![j] = r.sm]], ok |-> TRUE, panic |-> FALSE]
          ELSE advance_children_forward([children EXCEPT ![j] = AstItemStateMachine_reset(r.sm)],
                                        j + 1)

advance_children_first_to_last(children, k) == advance_children_forward(children, 1)

\* Mutant: the first child, the last one tried, is not reset when its
\* advance returns false.
RECURSIVE advance_children_keep_first(_, _)
advance_children_keep_first(children, k) ==
  IF k = 0 THEN [sm |-> [children |-> children], ok |-> FALSE, panic |-> FALSE]
  ELSE LET r == AstItemStateMachine_advance(children[k])
       IN IF r.ok
          THEN [sm |-> [children |-> [children EXCEPT ![k] = r.sm]], ok |-> TRUE, panic |-> FALSE]
          ELSE IF k = 1
          THEN [sm |-> [children |-> [children EXCEPT ![k] = r.sm]], ok |-> FALSE, panic |-> FALSE]
          ELSE advance_children_keep_first([children EXCEPT ![k] = AstItemStateMachine_reset(r.sm)],
                                           k - 1)

\* for child in self.children.iter_mut().rev() { if child.advance() { return true } else { child.reset() } }
RECURSIVE advance_children(_, _)
advance_children(children, k) ==
  IF k = 0 THEN [sm |-> [children |-> children], ok |-> FALSE, panic |-> FALSE]
  ELSE LET r == AstItemStateMachine_advance(children[k])
       IN IF r.panic
          THEN [sm |-> [children |-> [children EXCEPT ![k] = r.sm]], ok |-> FALSE, panic |-> TRUE]
          ELSE IF r.ok
          THEN [sm |-> [children |-> [children EXCEPT ![k] = r.sm]], ok |-> TRUE, panic |-> FALSE]
          ELSE advance_children([children EXCEPT ![k] = AstItemStateMachine_reset(r.sm)], k - 1)

AstStateMachine_advance(sm) == advance_children(sm.children, Len(sm.children))

\* ------------------------------------------------------------------ lib.rs
BraceExpandIterator_new(state_machine, length_hint, num_expansions_hint) ==
  [state_machine |-> state_machine, is_done |-> FALSE,
   length_hint |-> length_hint, num_expansions_hint |-> num_expansions_hint]

\* Value of the iterator slot before construction and after a failed one.
NoIterator == BraceExpandIterator_new(AstStateMachine_new(<<>>), 0, 0)

\* Mutant: next_into without the is_done early return.
next_into_no_done_check(self, output) ==
  LET filled == AstStateMachine_fill(self.state_machine, <<>>)
      r == AstStateMachine_advance(self.state_machine)
  IN [self |-> [self EXCEPT !.state_machine = r.sm, !.is_done = ~r.ok],
      output |-> filled, ret |-> TRUE, panic |-> (filled = Poisoned \/ r.panic)]

\* Mutant: next_into clears the buffer before it tests is_done.
next_into_clear_first(self, output) ==
  IF self.is_done THEN [self |-> self, output |-> <<>>, ret |-> FALSE, panic |-> FALSE]
  ELSE LET filled == AstStateMachine_fill(self.state_machine, <<>>)
           r == AstStateMachine_advance(self.state_machine)
       IN [self |-> [self EXCEPT !.state_machine = r.sm, !.is_done = ~r.ok],
           output |-> filled, ret |-> TRUE, panic |-> (filled = Poisoned \/ r.panic)]

\* Mutant: next_into without output.clear().
next_into_no_clear(self, output) ==
  IF self.is_done THEN [self |-> self, output |-> output, ret |-> FALSE, panic |-> FALSE]
  ELSE LET filled == AstStateMachine_fill(self.state_machine, output)
           r == AstStateMachine_advance(self.state_machine)
       IN [self |-> [self EXCEPT !.state_machine = r.sm, !.is_done = ~r.ok],
           output |-> filled, ret |-> TRUE, panic |-> (filled = Poisoned \/ r.panic)]

next_into(self, output) ==
  IF self.is_done THEN [self |-> self, output |-> output, ret |-> FALSE, panic |-> FALSE]
  ELSE LET cleared == <<>>
           filled == AstStateMachine_fill(self.state_machine, cleared)
           r == AstStateMachine_advance(self.state_machine)
       IN [self |-> [self EXCEPT !.state_machine = r.sm, !.is_done = ~r.ok],
           output |-> filled, ret |-> TRUE, panic |-> (filled = Poisoned \/ r.panic)]

next(self) ==
  IF self.is_done THEN [self |-> self, some |-> FALSE, value |-> <<>>, panic |-> FALSE]
  ELSE LET filled == AstStateMachine_fill(self.state_machine, <<>>)
           r == AstStateMachine_advance(self.state_machine)
       IN [self |-> [self EXCEPT !.state_machine = r.sm, !.is_done = ~r.ok],
           some |-> TRUE, value |-> filled, panic |-> (filled = Poisoned \/ r.panic)]

max_expansion_length(self) == self.length_hint

num_expansions(self) == self.num_expansions_hint

brace_expand_iter(input, escape) ==
  LET tokens == tokenize(input, escape)
      parsed == ast_from_tokens(tokens)
  IN IF ~parsed.ok
     THEN [ok |-> FALSE, iter |-> NoIterator, err |-> parsed.err, panic |-> parsed.panic]
     ELSE LET ast == parsed.ast
              size_hint == ast_max_expansion_length(ast)
              num_expansions_hint == ast_num_expansions(ast)
              sm == AstStateMachine_new(ast)
          IN [ok |-> TRUE, iter |-> BraceExpandIterator_new(sm, size_hint, num_expansions_hint),
              err |-> NoError, panic |-> FALSE]

\* ------------------------------------------------------------------ String
\* str::find / str::rfind give a 0-based byte index or None.
NotFound == -1

find_from(s, pat, from) ==
  LET hits == {i \in from..(Len(s) - Len(pat)) : SubSeq(s, i + 1, i + Len(pat)) = pat}
  IN IF hits = {} THEN NotFound ELSE CHOOSE i \in hits : \A j \in hits : i <= j

find(s, pat) == find_from(s, pat, 0)

rfind(s, pat) ==
  LET hits == {i \in 0..(Len(s) - Len(pat)) : SubSeq(s, i + 1, i + Len(pat)) = pat}
  IN IF hits = {} THEN NotFound ELSE CHOOSE i \in hits : \A j \in hits : i >= j

\* String::remove(idx)
remove(s, idx) == SubSeq(s, 1, idx) \o SubSeq(s, idx + 2, Len(s))

\* String::replace_range(start..end, with); panics when the range does not
\* lie within the string.
replace_range_in_bounds(s, start, end) == start <= end /\ end <= Len(s)

replace_range(s, start, end, with) ==
  SubSeq(s, 1, start) \o with \o SubSeq(s, end + 1, Len(s))

\* str::replace(from, to) for a one-character from
RECURSIVE replace(_, _, _)
replace(s, from, to) ==
  IF s = <<>> THEN <<>>
  ELSE (IF Head(s) = from THEN to ELSE <<Head(s)>>) \o replace(Tail(s), from, to)

\* usize::to_string for a value that did not wrap
RECURSIVE to_string(_)
to_string(n) ==
  LET digit == <<"0", "1", "2", "3", "4", "5", "6", "7", "8", "9">>[(n % 10) + 1]
  IN IF n < 10 THEN <<digit>> ELSE Append(to_string(n \div 10), digit)

\* usize::to_string of close - open - 2 as the build computes it: a
\* negative difference is the 64-bit wrapped value 18446744073709551616 + d
\* (release build; the debug build panics before it gets here).
usize_to_string(d) ==
  IF d >= 0 THEN to_string(d)
  ELSE <<"1", "8", "4", "4", "6", "7", "4", "4", "0", "7", "3", "7", "0", "9", "5", "5">>
         \o to_string(1616 + d)

\* ------------------------------------------------------------------ djb2_utils
\* A u32 is its four bytes, least significant first.
U32(n) == <<n % 256, (n \div 256) % 256, (n \div 65536) % 256, (n \div 16777216) % 256>>

\* u32::overflowing_mul(b).0: the low 32 bits of the product
overflowing_mul(a, b) ==
  LET c1 == a[1] * b[1]
      c2 == a[1] * b[2] + a[2] * b[1] + (c1 \div 256)
      c3 == a[1] * b[3] + a[2] * b[2] + a[3] * b[1] + (c2 \div 256)
      c4 == a[1] * b[4] + a[2] * b[3] + a[3] * b[2] + a[4] * b[1] + (c3 \div 256)
  IN <<c1 % 256, c2 % 256, c3 % 256, c4 % 256>>

RECURSIVE xor_bits(_, _, _)
xor_bits(a, b, n) ==
  IF n = 0 THEN 0
  ELSE ((a + b) % 2) + 2 * xor_bits(a \div 2, b \div 2, n - 1)

\* hash ^ (c as u32): the byte is zero-extended, so only the low byte changes
xor_u8(hash, c) == [hash EXCEPT ![1] = xor_bits(hash[1], c, 8)]

DJB2_HASH_SEED == U32(5381)

RECURSIVE hash_djb2(_, _)
hash_djb2(s, seed) ==
  IF s = <<>> THEN seed
  ELSE hash_djb2(Tail(s), xor_u8(overflowing_mul(seed, U32(33)), Head(s)))

\* Mutant: the suffix is undone front to back.
RECURSIVE invhash_djb2_forward(_, _)
invhash_djb2_forward(s, seed) ==
  IF s = <<>> THEN seed
  ELSE invhash_djb2_forward(Tail(s), overflowing_mul(xor_u8(seed, Head(s)), U32(1041204193)))

RECURSIVE invhash_djb2(_, _)
invhash_djb2(s, seed) ==
  IF s = <<>> THEN seed
  ELSE invhash_djb2(SubSeq(s, 1, Len(s) - 1),
                    overflowing_mul(xor_u8(seed, s[Len(s)]), U32(1041204193)))

\* Mutant: the loop tests value before its first round, so 0 has no digit.
RECURSIVE invhash_djb2_int_test_first(_, _, _)
invhash_djb2_int_test_first(value, seed, length_seed) ==
  IF value = 0 THEN [hash |-> seed, length |-> length_seed]
  ELSE invhash_djb2_int_test_first(
         value \div 10,
         overflowing_mul(xor_u8(seed, (value % 10) + 48), U32(1041204193)),
         length_seed + 1)

\* invhash_djb2_int(value, seed, length_seed): one round of the loop, then
\* the rest of it unless value has become 0
RECURSIVE invhash_djb2_int(_, _, _)
invhash_djb2_int(value, seed, length_seed) ==
  LET hash == overflowing_mul(xor_u8(seed, (value % 10) + 48), U32(1041204193))
      length == length_seed + 1
  IN IF value \div 10 = 0 THEN [hash |-> hash, length |-> length]
     ELSE invhash_djb2_int(value \div 10, hash, length)

\* ------------------------------------------------------------------ bruteforcer
Builds == {"debug", "release"}

\* BufReader::lines(): the text split at each "\n", no line for the empty
\* remainder after the last "\n".
RECURSIVE lines(_)
lines(text) ==
  LET nl == find(text, <<"\n">>)
  IN IF text = <<>> THEN <<>>
     ELSE IF nl = NotFound THEN <<text>>
     ELSE <<SubSeq(text, 1, nl)>> \o lines(SubSeq(text, nl + 2, Len(text)))

\* word.replace("\\", "\\\\").replace(",", "\\,").replace("{", "\\{").replace("}", "\\}")
escape_word(word) ==
  replace(replace(replace(replace(word, "\\", <<"\\", "\\">>),
                          ",", <<"\\", ",">>),
                  "{", <<"\\", "{">>),
          "}", <<"\\", "}">>)

\* "{", then every word escaped and followed by ",", then the last
\* character replaced by "}"
RECURSIVE push_words(_, _, _)
push_words(word_list_pattern, words, k) ==
  IF k > Len(words) THEN word_list_pattern
  ELSE push_words(word_list_pattern \o escape_word(words[k]) \o <<",">>, words, k + 1)

word_list_pattern_of(words) ==
  LET word_list_pattern == push_words(<<"{">>, words, 1)
  IN replace_range(word_list_pattern, Len(word_list_pattern) - 1, Len(word_list_pattern),
                   <<"}">>)

\* apply_square_bracket_word_list_substitution(&mut s), files maps the
\* names File::open can open to their text
RECURSIVE apply_square_bracket_word_list_substitution(_, _)
apply_square_bracket_word_list_substitution(s, files) ==
  LET open_bracket_byte_idx == find(s, <<"W", "[">>)
      close_bracket_byte_idx == find_from(s, <<"]">>, open_bracket_byte_idx + 2)
      word_list_name == SubSeq(s, open_bracket_byte_idx + 3, close_bracket_byte_idx)
                          \o <<".", "t", "x", "t">>
  IN IF open_bracket_byte_idx = NotFound THEN s
     ELSE IF close_bracket_byte_idx = NotFound THEN s
     ELSE IF word_list_name \notin DOMAIN files THEN s
     ELSE apply_square_bracket_word_list_substitution(
            replace_range(s, open_bracket_byte_idx, close_bracket_byte_idx + 1,
                          word_list_pattern_of(lines(files[word_list_name]))),
            files)

\* apply_square_bracket_length_prefix_substitution(&mut s): the result
\* string, or a panic (subtraction overflow in the debug build,
\* replace_range out of range in either build).
RECURSIVE apply_square_bracket_length_prefix_substitution(_, _)
apply_square_bracket_length_prefix_substitution(s, build) ==
  LET open_bracket_byte_idx == find(s, <<"P", "[">>)
      close_bracket_byte_idx == rfind(s, <<"]">>)
      substring_length == close_bracket_byte_idx - open_bracket_byte_idx - 2
      removed == remove(s, close_bracket_byte_idx)
  IN IF open_bracket_byte_idx = NotFound THEN [s |-> s, panic |-> FALSE]
     ELSE IF close_bracket_byte_idx = NotFound THEN [s |-> s, panic |-> FALSE]
     ELSE IF substring_length < 0 /\ build = "debug" THEN [s |-> s, panic |-> TRUE]
     ELSE IF ~replace_range_in_bounds(removed, open_bracket_byte_idx, open_bracket_byte_idx + 2)
          THEN [s |-> removed, panic |-> TRUE]
     ELSE apply_square_bracket_length_prefix_substitution(
            replace_range(removed, open_bracket_byte_idx, open_bracket_byte_idx + 2,
                          usize_to_string(substring_length)),
            build)

\* str::replace(from, to) for a from of any length: the matches are taken
\* left to right and do not overlap
RECURSIVE replace_str(_, _, _)
replace_str(s, from, to) ==
  LET at == find(s, from)
  IN IF at = NotFound THEN s
     ELSE SubSeq(s, 1, at) \o to \o replace_str(SubSeq(s, at + Len(from) + 1, Len(s)), from, to)

\* str::as_bytes() of ASCII text: the printable characters in code order,
\* the space (32) to the underscore (95) and the small letters (97) to the
\* tilde (126)
as_bytes(s) ==
  LET from_32 ==
        <<" ", "!", "\"", "#", "$", "%", "&", "'", "(", ")", "*", "+", ",",
          "-", ".", "/", "0", "1", "2", "3", "4", "5", "6", "7", "8", "9",
          ":", ";", "<", "=", ">", "?", "@", "A", "B", "C", "D", "E", "F",
          "G", "H", "I", "J", "K", "L", "M", "N", "O", "P", "Q", "R", "S",
          "T", "U", "V", "W", "X", "Y", "Z", "[", "\\", "]", "^", "_">>
      from_97 ==
        <<"a", "b", "c", "d", "e", "f", "g", "h", "i", "j", "k", "l", "m",
          "n", "o", "p", "q", "r", "s", "t", "u", "v", "w", "x", "y", "z",
          "{", "|", "}", "~">>
  IN [k \in 1..Len(s) |->
        IF \E n \in 1..Len(from_97) : from_97[n] = s[k]
        THEN 96 + (CHOOSE n \in 1..Len(from_97) : from_97[n] = s[k])
        ELSE 31 + (CHOOSE n \in 1..Len(from_32) : from_32[n] = s[k])]

\* apply_pattern_shorthands(s), with the map of make_pattern_shorthands():
\* no key occurs in another key or in a replacement, so the order in which
\* the map is folded makes no difference.
apply_pattern_shorthands(s) ==
  LET primitives ==
        <<"{", ",", "P", ",", "R", "}", "{", ",", "C", "}", "{", "{", ",",
          "U", ",", "S", "}", "{", "c", ",", "s", ",", "i", ",", "l", "}",
          ",", "f", ",", "b", "}">>
      head == <<"{", ",", "C", "}", "F", "{", "v", ",">>
      END1 == head \o primitives \o <<"}">>
      END2 == head \o primitives \o <<",">> \o primitives \o primitives \o <<"}">>
      END3 == head \o primitives \o <<",">> \o primitives \o primitives \o <<",">>
                \o primitives \o primitives \o primitives \o <<"}">>
  IN replace_str(replace_str(replace_str(s, <<"E", "N", "D", "1">>, END1),
                             <<"E", "N", "D", "2">>, END2),
                 <<"E", "N", "D", "3">>, END3)

\* nvidia_demangle::demangle(s).unwrap_or_else(|_| "ERROR".to_string()).
\* The demangler is native code behind an FFI call; demangler names what it
\* does: "fails" (every call is an Err), "tags" (a different text for each
\* symbol) or "folds" (the same text for all symbols with one first
\* character). The empty symbol demangles to the empty text.
Demanglers == {"fails", "tags", "folds"}

demangle(s, demangler) ==
  IF demangler = "fails" THEN [ok |-> FALSE, value |-> <<>>]
  ELSE IF s = <<>> THEN [ok |-> TRUE, value |-> <<>>]
  ELSE IF demangler = "tags" THEN [ok |-> TRUE, value |-> s \o <<"(", ")">>]
  ELSE [ok |-> TRUE, value |-> <<s[1]>>]

demangle_or_error(s, demangler) ==
  IF demangle(s, demangler).ok THEN demangle(s, demangler).value
  ELSE <<"E", "R", "R", "O", "R">>

\* The hex digits as "{:08x}" writes them.
HexLower == <<"0", "1", "2", "3", "4", "5", "6", "7", "8", "9", "a", "b", "c", "d", "e", "f">>

\* The value of a digit of [a-fA-F0-9] as u32::from_str_radix(_, 16) reads
\* it, -1 for any other character
hex_digit_value(c) ==
  LET HexUpper == <<"0", "1", "2", "3", "4", "5", "6", "7", "8", "9",
                    "A", "B", "C", "D", "E", "F">>
  IN IF \E n \in 1..16 : HexLower[n] = c \/ HexUpper[n] = c
     THEN (CHOOSE n \in 1..16 : HexLower[n] = c \/ HexUpper[n] = c) - 1
     ELSE -1

\* u32::from_str_radix(digits, 16) for eight digits
from_str_radix_16(digits) ==
  [k \in 1..4 |-> 16 * hex_digit_value(digits[9 - 2 * k]) + hex_digit_value(digits[10 - 2 * k])]

\* HASHNAME_REGEX.captures(name): "hashname_", eight hex digits, "_", eight
\* hex digits, at the start of the name
HASHNAME_REGEX_captures(name) ==
  IF /\ Len(name) >= 26
     /\ SubSeq(name, 1, 9) = <<"h", "a", "s", "h", "n", "a", "m", "e", "_">>
     /\ \A k \in 10..17 : hex_digit_value(name[k]) # -1
     /\ name[18] = "_"
     /\ \A k \in 19..26 : hex_digit_value(name[k]) # -1
  THEN [some |-> TRUE, g1 |-> SubSeq(name, 10, 17), g2 |-> SubSeq(name, 19, 26)]
  ELSE [some |-> FALSE, g1 |-> <<>>, g2 |-> <<>>]

None == [some |-> FALSE, value |-> <<>>]
Some(v) == [some |-> TRUE, value |-> v]

\* The SymbolDatabaseEntry that SymbolDatabase::new makes of one (address,
\* name) pair of the symbol map
SymbolDatabaseEntry(address, name, demangler) ==
  LET caps == HASHNAME_REGEX_captures(name)
  IN IF caps.some
     THEN [address |-> address,
           mangled_hash |-> from_str_radix_16(caps.g1),
           demangled_hash |-> from_str_radix_16(caps.g2),
           mangled_name |-> None]
     ELSE [address |-> address,
           mangled_hash |-> hash_djb2(as_bytes(name), DJB2_HASH_SEED),
           demangled_hash |-> hash_djb2(as_bytes(demangle_or_error(name, demangler)),
                                        DJB2_HASH_SEED),
           mangled_name |-> Some(name)]

\* HashMap::get
get(map, key) == IF key \in DOMAIN map THEN Some(map[key]) ELSE None

\* SymbolDatabase::new(basic_map), basic_map in the order its iterator
\* gives the pairs: map.entry(_).or_default().entry(_).or_default().push(_)
\* for each pair
RECURSIVE SymbolDatabase_insert_all(_, _, _, _)
SymbolDatabase_insert_all(basic_map, k, map, demangler) ==
  IF k > Len(basic_map) THEN map
  ELSE LET or_default(m, key) == IF key \in DOMAIN m THEN m[key] ELSE <<>>
           insert(m, key, value) ==
             [x \in (DOMAIN m) \cup {key} |-> IF x = key THEN value ELSE m[x]]
           entry == SymbolDatabaseEntry(basic_map[k].address, basic_map[k].name, demangler)
           by_demangled == or_default(map, entry.mangled_hash)
           symbols == or_default(by_demangled, entry.demangled_hash)
       IN SymbolDatabase_insert_all(
            basic_map, k + 1,
            insert(map, entry.mangled_hash,
                   insert(by_demangled, entry.demangled_hash, Append(symbols, entry))),
            demangler)

SymbolDatabase_new(basic_map, demangler) ==
  [contents |-> SymbolDatabase_insert_all(basic_map, 1, <<>>, demangler)]

ONLY_ECHO_FIRST == 50
ECHO_INTERVAL == 2000000
ECHO_INTERVAL_MAX_FUDGE == 100

\* Mutant: the shortcut before demangling looks at force_echo only.
skip_before_demangle_unless_echo(matching_mangled_db, force_echo) == ~force_echo

\* if matching_mangled_db.is_none() && !force_echo { continue; }
skip_before_demangle(matching_mangled_db, force_echo) ==
  ~matching_mangled_db.some /\ ~force_echo

\* matching_both_db.iter().filter(|sym| sym.mangled_name.is_none()).collect()
RECURSIVE filter_unknown(_, _)
filter_unknown(symbols, k) ==
  IF k > Len(symbols) THEN <<>>
  ELSE (IF ~symbols[k].mangled_name.some THEN <<symbols[k]>> ELSE <<>>)
         \o filter_unknown(symbols, k + 1)

\* The body of the candidate loop for the candidate next_into left in
\* sym_mangled, with i its index: what it leaves in sym_mangled,
\* echo_interval_fudge and newly_found_syms, whether it printed the
\* candidate, and whether it panicked.
check_candidate(db, demangler, build, sym_mangled, i, echo_interval_fudge, newly_found_syms) ==
  LET force_echo == i < ONLY_ECHO_FIRST \/ (i + echo_interval_fudge) % ECHO_INTERVAL = 0
      substituted == apply_square_bracket_length_prefix_substitution(sym_mangled, build)
      hash_mangled == hash_djb2(as_bytes(substituted.s), DJB2_HASH_SEED)
      matching_mangled_db == get(db.contents, hash_mangled)
      sym_demangled == demangle_or_error(substituted.s, demangler)
      hash_demangled == hash_djb2(as_bytes(sym_demangled), DJB2_HASH_SEED)
      matching_both_db == IF matching_mangled_db.some
                          THEN get(matching_mangled_db.value, hash_demangled)
                          ELSE None
      thing == IF matching_both_db.some THEN filter_unknown(matching_both_db.value, 1)
               ELSE <<>>
      new_unknown_syms == IF thing = <<>> THEN None ELSE Some(thing)
      force_echo_2 == force_echo \/ new_unknown_syms.some
      fudge_2 == IF ~force_echo_2 THEN echo_interval_fudge
                 ELSE IF echo_interval_fudge + 1 > ECHO_INTERVAL_MAX_FUDGE THEN 0
                 ELSE echo_interval_fudge + 1
      skipped == [sym_mangled |-> substituted.s, echo_interval_fudge |-> echo_interval_fudge,
                  newly_found_syms |-> newly_found_syms, echoed |-> FALSE, panic |-> FALSE]
  IN IF substituted.panic THEN [skipped EXCEPT !.panic = TRUE]
     ELSE IF skip_before_demangle(matching_mangled_db, force_echo) THEN skipped
     ELSE IF ~new_unknown_syms.some /\ ~force_echo_2 THEN skipped
     ELSE [sym_mangled |-> substituted.s,
           echo_interval_fudge |-> fudge_2,
           newly_found_syms |->
             newly_found_syms \o
               [k \in 1..Len(thing) |->
                  [sym |-> thing[k], name_mangled |-> substituted.s,
                   name_demangled |-> sym_demangled]],
           echoed |-> TRUE, panic |-> FALSE]


\* ------------------------------------------------------------------ the caller
\* input   : the (pattern, escape) pair handed to brace_expand_iter
\* pc      : "new" before construction, "iter" after Ok, "err" after Err
\* iter    : the BraceExpandIterator under test
\* err     : the Err payload of a failed construction
\* output  : the caller's buffer handed to next_into
\* ret     : what the latest next()/next_into() call returned
\* yielded : the strings produced so far, in order
\* ops     : which of the two pull operations have been used so far
\* extra   : number of calls made on an iterator that was already done
\* ref     : a second iterator built from the same input, driven by next() only
\* refRet  : what the latest next() on ref returned
\* panicked: a next()/next_into() call on iter or ref has panicked
\* query   : the candidate loop of process_line_as_pattern
VARIABLES input, pc, iter, err, output, ret, yielded, ops, extra, ref, refRet, panicked,
          subst, word_list, djb2, query

vars == <<input, pc, iter, err, output, ret, yielded, ops, extra, ref, refRet, panicked,
          subst, word_list, djb2, query>>

\* The bruteforcer and the hash functions are not running.
SubstIdle == [pc |-> "idle", candidate |-> <<>>, sym_mangled |-> <<>>, panic |-> FALSE]
WordListIdle == [pc |-> "idle", line |-> <<>>, files |-> <<>>]
Djb2Idle == [pc |-> "idle"]
QueryIdle == [pc |-> "idle"]

NoCall == [op |-> "none", some |-> FALSE, value |-> <<>>, prior |-> <<>>]

Init ==
  /\ input \in [pattern : Patterns, escape : BOOLEAN]
  /\ pc = "new"
  /\ iter = NoIterator
  /\ err = NoError
  /\ output = <<>>
  /\ ret = NoCall
  /\ yielded = <<>>
  /\ ops = {}
  /\ extra = 0
  /\ ref = NoIterator
  /\ refRet = NoCall
  /\ panicked = FALSE
  /\ query = QueryIdle
  /\ subst = SubstIdle
  /\ word_list = WordListIdle
  /\ djb2 = Djb2Idle

\* brace_expand_iter(input, escape), once for each of the two iterators
Construct ==
  /\ pc = "new"
  /\ LET r == brace_expand_iter(input.pattern, input.escape)
         r2 == brace_expand_iter(input.pattern, input.escape)
     IN /\ pc' = IF r.ok THEN "iter" ELSE IF r.panic THEN "panic" ELSE "err"
        /\ iter' = r.iter
        /\ err' = r.err
        /\ ref' = r2.iter
        /\ panicked' = (r.panic \/ r2.panic)
  /\ UNCHANGED <<input, output, ret, yielded, ops, extra, refRet>>
  /\ UNCHANGED <<query, subst, word_list, djb2>>

MayCall == pc = "iter" /\ ~panicked /\ (iter.is_done => extra < MaxExtraCalls)

\* iter.next(), with ref.next() in lockstep
CallNext ==
  /\ MayCall
  /\ LET r == next(iter)
         q == next(ref)
     IN /\ iter' = r.self
        /\ ret' = [op |-> "next", some |-> r.some, value |-> r.value, prior |-> <<>>]
        /\ yielded' = IF r.some THEN Append(yielded, r.value) ELSE yielded
        /\ ref' = q.self
        /\ refRet' = [op |-> "next", some |-> q.some, value |-> q.value, prior |-> <<>>]
        /\ panicked' = (r.panic \/ q.panic)
  /\ ops' = ops \cup {"next"}
  /\ extra' = IF iter.is_done THEN extra + 1 ELSE extra
  /\ UNCHANGED <<query, input, pc, err, output, subst, word_list, djb2>>

\* iter.next_into(&mut output) on a buffer that holds either what the
\* previous call left in it or something else the caller wrote; ref.next()
\* in lockstep
CallNextInto ==
  /\ MayCall
  /\ \E prior \in {output} \cup JunkBuffers :
       LET r == next_into(iter, prior)
           q == next(ref)
       IN /\ iter' = r.self
          /\ output' = r.output
          /\ ret' = [op |-> "next_into", some |-> r.ret, value |-> <<>>, prior |-> prior]
          /\ yielded' = IF r.ret THEN Append(yielded, r.output) ELSE yielded
          /\ ref' = q.self
          /\ refRet' = [op |-> "next", some |-> q.some, value |-> q.value, prior |-> <<>>]
          /\ panicked' = (r.panic \/ q.panic)
  /\ ops' = ops \cup {"next_into"}
  /\ extra' = IF iter.is_done THEN extra + 1 ELSE extra
  /\ UNCHANGED <<query, input, pc, err, subst, word_list, djb2>>

Next == Construct \/ CallNext \/ CallNextInto

Spec == Init /\ [][Next]_vars

\* ------------------------------------------------------------------ derived values
Tokens == tokenize(input.pattern, input.escape)
Parsed == ast_from_tokens(Tokens)
Ast == Parsed.ast

\* ------------------------------------------------------------------ reference expansion
\* Expand(Leaf t) = [t]; Expand(Choices bs) = Expand(b1) ++ ... ++ Expand(bn);
\* Expand([n1..nk]) = every s1 ++ ... ++ sk, n1 slowest and nk fastest.
RECURSIVE Expand(_)
RECURSIVE ExpandBranches(_, _)
ExpandBranches(bs, k) ==
  IF k > Len(bs) THEN <<>> ELSE Expand(bs[k]) \o ExpandBranches(bs, k + 1)

ExpandItem(item) ==
  IF item.kind = "Leaf" THEN <<item.text>> ELSE ExpandBranches(item.branches, 1)

\* every h ++ t, h from heads (slow) and t from tails (fast)
CrossConcat(heads, tails) ==
  [n \in 1..(Len(heads) * Len(tails)) |->
     heads[((n - 1) \div Len(tails)) + 1] \o tails[((n - 1) % Len(tails)) + 1]]

Expand(ast) ==
  IF ast = <<>> THEN << <<>> >>
  ELSE CrossConcat(ExpandItem(Head(ast)), Expand(Tail(ast)))

IsPrefix(s, t) == Len(s) <= Len(t) /\ SubSeq(t, 1, Len(s)) = s

\* The latest call reported exhaustion (None / false).
Exhausted == ret.op # "none" /\ ~ret.some

\* ------------------------------------------------------------------ C1
\* C1: for every input accepted by brace_expand_iter, the number of
\* successful pulls before the first None/false equals num_expansions().
C1_PullsEqualNumExpansions ==
  /\ (pc = "iter" => Len(yielded) <= num_expansions(iter))
  /\ (Exhausted => Len(yielded) = num_expansions(iter))

\* ------------------------------------------------------------------ C2
\* C2: the strings yielded by a fresh iterator are, in order, the reference
\* expansion Expand(ast): always a prefix of it, and all of it once the
\* iterator reports exhaustion.
C2_YieldedIsExpand ==
  pc = "iter" =>
    /\ IsPrefix(yielded, Expand(Ast))
    /\ (Exhausted => yielded = Expand(Ast))

\* ------------------------------------------------------------------ C3
\* C3: max_expansion_length() is the maximum length of the yielded strings:
\* none is longer, and once the iterator is exhausted one of them has
\* exactly that length.
C3_MaxLengthExact ==
  pc = "iter" =>
    /\ \A k \in 1..Len(yielded) : Len(yielded[k]) <= max_expansion_length(iter)
    /\ (Exhausted => \E k \in 1..Len(yielded) : Len(yielded[k]) = max_expansion_length(iter))

\* An exhausted iterator whose strings had different lengths, the longest
\* coming from a group that is not the first item.
C3_Witness ==
  /\ Exhausted
  /\ Len(yielded) >= 3
  /\ \E j, k \in 1..Len(yielded) : Len(yielded[j]) < Len(yielded[k])
  /\ Len(yielded[1]) < max_expansion_length(iter)

\* ------------------------------------------------------------------ nesting of a token sequence
\* Read off the braces alone, without the builder: 0-based indices, -1 for
\* "none".
\* Index of the CloseBrace matching an OpenBrace, scanning from i at the
\* given depth below it; -1 when the group is never closed.
RECURSIVE MatchClose(_, _, _)
MatchClose(tokens, i, depth) ==
  IF i >= Len(tokens) THEN -1
  ELSE IF TokenAt(tokens, i) = OpenBrace THEN MatchClose(tokens, i + 1, depth + 1)
  ELSE IF TokenAt(tokens, i) = CloseBrace
       THEN IF depth = 1 THEN i ELSE MatchClose(tokens, i + 1, depth - 1)
  ELSE MatchClose(tokens, i + 1, depth)

\* Index of the first CloseBrace or Comma that lies outside every group.
RECURSIVE FirstStray(_, _)
FirstStray(tokens, i) ==
  IF i >= Len(tokens) THEN -1
  ELSE IF TokenAt(tokens, i) \in {CloseBrace, Comma} THEN i
  ELSE IF TokenAt(tokens, i) = OpenBrace
       THEN IF MatchClose(tokens, i + 1, 1) = -1 THEN -1
            ELSE FirstStray(tokens, MatchClose(tokens, i + 1, 1) + 1)
  ELSE FirstStray(tokens, i + 1)

\* Index of the first top-level OpenBrace that is never closed.
RECURSIVE FirstUnmatchedOpen(_, _)
FirstUnmatchedOpen(tokens, i) ==
  IF i >= Len(tokens) THEN -1
  ELSE IF TokenAt(tokens, i) = OpenBrace
       THEN IF MatchClose(tokens, i + 1, 1) = -1 THEN i
            ELSE FirstUnmatchedOpen(tokens, MatchClose(tokens, i + 1, 1) + 1)
  ELSE FirstUnmatchedOpen(tokens, i + 1)

\* Index of the last Comma at the own level of the group opened at o and
\* running to the end of the tokens; o itself when it has no Comma.
RECURSIVE LastOwnComma(_, _, _, _)
LastOwnComma(tokens, i, depth, last) ==
  IF i >= Len(tokens) THEN last
  ELSE IF TokenAt(tokens, i) = OpenBrace THEN LastOwnComma(tokens, i + 1, depth + 1, last)
  ELSE IF TokenAt(tokens, i) = CloseBrace THEN LastOwnComma(tokens, i + 1, depth - 1, last)
  ELSE IF TokenAt(tokens, i) = Comma /\ depth = 1 THEN LastOwnComma(tokens, i + 1, depth, i)
  ELSE LastOwnComma(tokens, i + 1, depth, last)

\* ------------------------------------------------------------------ C4
\* C4: construction fails exactly when the top-level parse stops before the
\* end of the tokens, which is exactly when a CloseBrace or Comma lies
\* outside every group; the error carries the first such token and its index
\* in the token sequence.
C4_ErrorIffStrayToken ==
  pc # "new" =>
    /\ (pc = "err") = (ast_from_tokens_partial(Tokens).size < Len(Tokens))
    /\ (pc = "err") = (FirstStray(Tokens, 0) # -1)
    /\ (pc = "err" =>
          err = UnexpectedToken(TokenAt(Tokens, FirstStray(Tokens, 0)), FirstStray(Tokens, 0)))
    /\ (pc = "iter" => err = NoError)

\* A failed construction whose stray token is a Comma that follows a
\* complete group.
C4_Witness ==
  /\ pc = "err"
  /\ err.token = Comma
  /\ err.position >= 2
  /\ TokenAt(Tokens, err.position - 1) = CloseBrace

\* ------------------------------------------------------------------ C5
\* C5: an OpenBrace that is never closed does not make the builder fail, and
\* the Choices node built for it ends with a branch that is the parse of
\* everything after the group's last Comma (after its OpenBrace when it has
\* none), up to the end of the tokens.
C5_UnterminatedLastBranch ==
  (pc # "new" /\ FirstStray(Tokens, 0) = -1 /\ FirstUnmatchedOpen(Tokens, 0) # -1) =>
    /\ pc = "iter"
    /\ Len(Ast) > 0
    /\ LET o == FirstUnmatchedOpen(Tokens, 0)
           g == Ast[Len(Ast)]
           rest == Slice(Tokens, LastOwnComma(Tokens, o + 1, 1, o) + 1)
       IN /\ g.kind = "Choices"
          /\ Len(g.branches) > 0
          /\ g.branches[Len(g.branches)] = ast_from_tokens_partial(rest).ast

\* ------------------------------------------------------------------ C10
\* The alternatives of a group body: the body cut at each Comma of the
\* body's own level, so a body with k such Commas has k + 1 alternatives.
RECURSIVE SplitAtCommas(_, _, _, _, _)
SplitAtCommas(body, i, depth, cur, acc) ==
  IF i >= Len(body) THEN Append(acc, cur)
  ELSE LET t == TokenAt(body, i) IN
    IF t = Comma /\ depth = 0 THEN SplitAtCommas(body, i + 1, depth, <<>>, Append(acc, cur))
    ELSE IF t = OpenBrace THEN SplitAtCommas(body, i + 1, depth + 1, Append(cur, t), acc)
    ELSE IF t = CloseBrace THEN SplitAtCommas(body, i + 1, depth - 1, Append(cur, t), acc)
    ELSE SplitAtCommas(body, i + 1, depth, Append(cur, t), acc)

\* End of the group opened just before i: its CloseBrace, or the end of the
\* tokens for a group that is never closed.
GroupEnd(tokens, i) ==
  IF MatchClose(tokens, i, 1) = -1 THEN Len(tokens) ELSE MatchClose(tokens, i, 1)

\* ast (from item j on) is built from tokens (from index i on) with one Leaf
\* per Term and, per group, one Choices with one branch per alternative in
\* source order, each branch built the same way from its alternative.
RECURSIVE BranchPerAlternative(_, _, _, _)
BranchPerAlternative(ast, j, tokens, i) ==
  IF i >= Len(tokens) THEN j = Len(ast) + 1
  ELSE IF j > Len(ast) THEN FALSE
  ELSE LET t == TokenAt(tokens, i) IN
    IF t.type = "Term"
    THEN ast[j] = Leaf(t.s) /\ BranchPerAlternative(ast, j + 1, tokens, i + 1)
    ELSE IF t = OpenBrace
    THEN LET e == GroupEnd(tokens, i + 1)
             alts == SplitAtCommas(SubSeq(tokens, i + 2, e), 0, 0, <<>>, <<>>)
         IN /\ ast[j].kind = "Choices"
            /\ Len(ast[j].branches) = Len(alts)
            /\ \A b \in 1..Len(alts) :
                 BranchPerAlternative(ast[j].branches[b], 1, alts[b], 0)
            /\ BranchPerAlternative(ast, j + 1, tokens, e + 1)
    ELSE FALSE

\* C10: a group with k Commas at its own level becomes a Choices node with
\* exactly k + 1 branches in source order, an empty Pattern for each empty
\* alternative; every branch, empty ones included, yields its own results and
\* equal results are not merged.
C10_BranchPerAlternative ==
  pc = "iter" =>
    /\ BranchPerAlternative(Ast, 1, Tokens, 0)
    /\ (Exhausted => Len(yielded) = Len(Expand(Ast)))

\* ------------------------------------------------------------------ C7
\* C7: is_done starts false and only ever goes from false to true; once a
\* call has returned None/false, every later next() returns None and every
\* later next_into() returns false.
C7_DoneMonotonicTerminal ==
  /\ ~iter.is_done
  /\ [][/\ (pc = "new" => ~iter'.is_done)
        /\ (iter.is_done => iter'.is_done /\ ~ret'.some)
        /\ (Exhausted => ~ret'.some)]_vars

\* Both operations have been called again on an exhausted iterator that had
\* yielded several strings.
C7_Witness ==
  /\ Exhausted
  /\ iter.is_done
  /\ extra >= 2
  /\ ops = {"next", "next_into"}
  /\ Len(yielded) >= 2

\* ------------------------------------------------------------------ C8
\* The string the latest successful call produced: the returned String of
\* next(), the buffer contents after next_into().
Produced == IF ret.op = "next" THEN ret.value ELSE output

\* C8: under any interleaving of next() and next_into() and any prior buffer
\* contents, each call produces what the same-numbered call of an iterator
\* driven by next() alone produces, and both report exhaustion at the same
\* call.
C8_NextIntoMatchesNext ==
  (pc = "iter" /\ ret.op # "none") =>
    /\ ret.some = refRet.some
    /\ (ret.some => Produced = refRet.value)
    /\ iter = ref

\* next_into() has just succeeded on a buffer holding foreign text, after
\* next() had been used on the same iterator too.
C8_Witness ==
  /\ ret.op = "next_into"
  /\ ret.some
  /\ ret.prior \in JunkBuffers
  /\ "next" \in ops
  /\ Len(yielded) >= 3
  /\ output # <<>>

\* ------------------------------------------------------------------ C9
RECURSIVE SeqSum(_)
SeqSum(xs) == IF xs = <<>> THEN 0 ELSE Head(xs) + SeqSum(Tail(xs))

\* The count identity on one pattern and, recursively, on every branch below
\* it: the empty pattern counts 1, every cut p ++ q of the pattern has
\* count(p ++ q) = count(p) * count(q), a Leaf contributes 1 and a Choices
\* node the sum of its branches' counts.
RECURSIVE CountIdentity(_)
CountIdentity(ast) ==
  /\ (ast = <<>> => ast_num_expansions(ast) = 1)
  /\ \A k \in 0..Len(ast) :
       ast_num_expansions(ast) =
         ast_num_expansions(SubSeq(ast, 1, k)) * ast_num_expansions(SubSeq(ast, k + 1, Len(ast)))
  /\ \A k \in 1..Len(ast) :
       /\ ast_num_expansions(<<ast[k]>>) = ast_item_num_expansions(ast[k])
       /\ IF ast[k].kind = "Leaf" THEN ast_item_num_expansions(ast[k]) = 1
          ELSE /\ ast_item_num_expansions(ast[k]) =
                    SeqSum([b \in 1..Len(ast[k].branches) |-> ast_num_expansions(ast[k].branches[b])])
               /\ \A b \in 1..Len(ast[k].branches) : CountIdentity(ast[k].branches[b])

\* C9: the count hint of every built pattern obeys the count identity.
C9_CountIdentity ==
  pc = "iter" => (num_expansions(iter) = ast_num_expansions(Ast) /\ CountIdentity(Ast))

\* A built pattern with a cut whose two sides both count more than 1 and
\* with a group that has an empty branch.
C9_Witness ==
  /\ pc = "iter"
  /\ \E k \in 1..Len(Ast) :
       /\ ast_num_expansions(SubSeq(Ast, 1, k)) >= 2
       /\ ast_num_expansions(SubSeq(Ast, k + 1, Len(Ast))) >= 2
  /\ \E k \in 1..Len(Ast) :
       /\ Ast[k].kind = "Choices"
       /\ \E b \in 1..Len(Ast[k].branches) : Ast[k].branches[b] = <<>>

\* ------------------------------------------------------------------ C15
\* Every Choices node of a state tree has current_index <= its number of
\* branches.
RECURSIVE IndexWithinLen(_)
IndexWithinLen(sm) ==
  \A k \in 1..Len(sm.children) :
    sm.children[k].kind = "Choices" =>
      /\ sm.children[k].current_index <= Len(sm.children[k].children)
      /\ \A b \in 1..Len(sm.children[k].children) : IndexWithinLen(sm.children[k].children[b])

\* C15: once an iterator is built, no next()/next_into() call panics, calls
\* after exhaustion included; fill and advance never index a branch list out
\* of range.
C15_EnumerationNeverPanics ==
  /\ ~panicked
  /\ output # Poisoned
  /\ IndexWithinLen(iter.state_machine)

\* Both operations have been called again after exhaustion on an iterator
\* whose tree holds a Choices node without branches next to a real group.
C15_Witness ==
  /\ pc = "iter"
  /\ ~panicked
  /\ extra >= 2
  /\ ops = {"next", "next_into"}
  /\ Len(yielded) >= 2
  /\ \E k \in 1..Len(iter.state_machine.children) :
       /\ iter.state_machine.children[k].kind = "Choices"
       /\ Len(iter.state_machine.children[k].children) = 0

\* ------------------------------------------------------------------ C16
\* C16: repeated pulls reach Done after finitely many calls, and the number
\* of calls that return a value never exceeds num_expansions().
C16_PullsBoundedByNumExpansions ==
  pc = "iter" => Len(yielded) <= num_expansions(iter)

\* ------------------------------------------------------------------ C11
Structural == {"{", "}", ","}
StructuralToken(c) == IF c = "{" THEN OpenBrace ELSE IF c = "}" THEN CloseBrace ELSE Comma

\* First pass of the escaping rule: each unescaped backslash is dropped and
\* marks the character after it as literal; a character is also literal when
\* it is not structural.
RECURSIVE EscapeMarks(_, _)
EscapeMarks(pattern, k) ==
  IF k > Len(pattern) THEN <<>>
  ELSE IF pattern[k] = "\\"
       THEN IF k + 1 > Len(pattern) THEN <<>>
            ELSE <<[c |-> pattern[k + 1], lit |-> TRUE]>> \o EscapeMarks(pattern, k + 2)
  ELSE <<[c |-> pattern[k], lit |-> pattern[k] \notin Structural]>> \o EscapeMarks(pattern, k + 1)

\* Second pass: a literal character joins the trailing Term or starts a new
\* Term; any other character is its structural token.
RECURSIVE GroupMarks(_, _, _)
GroupMarks(marks, k, tokens) ==
  IF k > Len(marks) THEN tokens
  ELSE IF ~marks[k].lit THEN GroupMarks(marks, k + 1, Append(tokens, StructuralToken(marks[k].c)))
  ELSE IF tokens # <<>> /\ tokens[Len(tokens)].type = "Term"
       THEN GroupMarks(marks, k + 1,
                       [tokens EXCEPT ![Len(tokens)] = Term(Append(tokens[Len(tokens)].s, marks[k].c))])
  ELSE GroupMarks(marks, k + 1, Append(tokens, Term(<<marks[k].c>>)))

\* C11: with escaping on, every backslash that is not itself escaped is
\* dropped, and the character after it is never a structural token: it is
\* appended to the trailing Term, or starts a Term when the previous token is
\* not a Term.
C11_EscapedCharIsLiteral ==
  (pc # "new" /\ input.escape) =>
    Tokens = GroupMarks(EscapeMarks(input.pattern, 1), 1, <<>>)

\* Escaping on, an escaped brace or comma directly after an ordinary
\* character, tokenized into a Term that holds both.
C11_Witness ==
  /\ pc # "new"
  /\ input.escape
  /\ \E k \in 2..(Len(input.pattern) - 1) :
       /\ input.pattern[k - 1] = "a"
       /\ input.pattern[k] = "\\"
       /\ input.pattern[k + 1] \in Structural
       /\ \E t \in 1..Len(Tokens) :
            /\ Tokens[t].type = "Term"
            /\ Len(Tokens[t].s) >= 2
            /\ \E j \in 1..Len(Tokens[t].s) : Tokens[t].s[j] \in Structural

\* ------------------------------------------------------------------ C12
\* Tokens written back as text: OpenBrace "{", CloseBrace "}", Comma ",",
\* Term its text.
RECURSIVE Untokenize(_)
Untokenize(tokens) ==
  IF tokens = <<>> THEN <<>>
  ELSE (IF Head(tokens) = OpenBrace THEN <<"{">>
        ELSE IF Head(tokens) = CloseBrace THEN <<"}">>
        ELSE IF Head(tokens) = Comma THEN <<",">>
        ELSE Head(tokens).s) \o Untokenize(Tail(tokens))

\* C12: with escaping off, every "{", "}" and "," is its own structural
\* token, every other character (backslash included) is in a Term, and the
\* tokens written back in order give the pattern again.
C12_NoEscapeLossless ==
  (pc # "new" /\ ~input.escape) =>
    /\ Untokenize(Tokens) = input.pattern
    /\ \A c \in Structural :
         Cardinality({k \in 1..Len(input.pattern) : input.pattern[k] = c})
           = Cardinality({t \in 1..Len(Tokens) : Tokens[t] = StructuralToken(c)})
    /\ \A t \in 1..Len(Tokens) :
         Tokens[t].type = "Term" =>
           \A j \in 1..Len(Tokens[t].s) : Tokens[t].s[j] \notin Structural

\* Escaping off, a backslash directly before a brace or comma: the backslash
\* is in a Term and the brace or comma is structural.
C12_Witness ==
  /\ pc # "new"
  /\ ~input.escape
  /\ \E k \in 1..(Len(input.pattern) - 1) :
       /\ input.pattern[k] = "\\"
       /\ input.pattern[k + 1] \in Structural
  /\ \E t \in 1..(Len(Tokens) - 1) :
       /\ Tokens[t].type = "Term"
       /\ Tokens[t].s[Len(Tokens[t].s)] = "\\"
       /\ Tokens[t + 1].type # "Term"

\* ------------------------------------------------------------------ C13
\* C13: under either escape setting the token sequence never has two
\* adjacent Terms, and no Term is empty.
C13_TermsMergedNonEmpty ==
  pc # "new" =>
    \A t \in 1..Len(Tokens) :
      Tokens[t].type = "Term" =>
        /\ Tokens[t].s # <<>>
        /\ (t < Len(Tokens) => Tokens[t + 1].type # "Term")

\* A Term of several characters, one of them escaped, between two
\* structural tokens.
C13_Witness ==
  /\ pc # "new"
  /\ input.escape
  /\ \E t \in 2..(Len(Tokens) - 1) :
       /\ Tokens[t].type = "Term"
       /\ Len(Tokens[t].s) >= 2
       /\ Tokens[t - 1].type # "Term"
       /\ Tokens[t + 1].type # "Term"
       /\ \E j \in 1..Len(Tokens[t].s) : Tokens[t].s[j] \in Structural

\* ------------------------------------------------------------------ C14
\* The pattern ends with a backslash that is not itself escaped: its
\* trailing run of backslashes has odd length.
RECURSIVE TrailingBackslashes(_)
TrailingBackslashes(pattern) ==
  IF pattern = <<>> \/ pattern[Len(pattern)] # "\\" THEN 0
  ELSE 1 + TrailingBackslashes(SubSeq(pattern, 1, Len(pattern) - 1))

DanglingEscape(pattern) == TrailingBackslashes(pattern) % 2 = 1

\* C14: with escaping on, a pattern that ends with a dangling backslash
\* tokenizes exactly like the same pattern without that backslash: the
\* backslash gives no token and no error of its own.
C14_DanglingEscapeDropped ==
  (pc # "new" /\ input.escape /\ DanglingEscape(input.pattern)) =>
    LET front == SubSeq(input.pattern, 1, Len(input.pattern) - 1)
    IN /\ Tokens = tokenize(front, TRUE)
       /\ (pc = "err") = ~ast_from_tokens(tokenize(front, TRUE)).ok

\* An accepted pattern with escaping on that ends with a dangling backslash
\* after an escaped backslash and other tokens.
C14_Witness ==
  /\ pc = "iter"
  /\ input.escape
  /\ DanglingEscape(input.pattern)
  /\ TrailingBackslashes(input.pattern) = 3
  /\ Len(Tokens) >= 1

\* ------------------------------------------------------------------ length prefixes
MaxSubstLen == 6
SubstAlphabet == {"P", "[", "]", "a"}

Candidates == UNION {[1..n -> SubstAlphabet] : n \in 0..MaxSubstLen}

InitSubst ==
  /\ input = [pattern |-> <<>>, escape |-> FALSE]
  /\ pc = "off"
  /\ iter = NoIterator
  /\ err = NoError
  /\ output = <<>>
  /\ ret = NoCall
  /\ yielded = <<>>
  /\ ops = {}
  /\ extra = 0
  /\ ref = NoIterator
  /\ refRet = NoCall
  /\ panicked = FALSE
  /\ query = QueryIdle
  /\ word_list = WordListIdle
  /\ djb2 = Djb2Idle
  /\ \E c \in Candidates :
       subst = [pc |-> "call", candidate |-> c, sym_mangled |-> c, panic |-> FALSE]

\* apply_square_bracket_length_prefix_substitution(&mut sym_mangled) on one
\* candidate, in either build
ApplyLengthPrefix ==
  /\ subst.pc = "call"
  /\ \E build \in Builds :
       LET r == apply_square_bracket_length_prefix_substitution(subst.sym_mangled, build)
       IN subst' = [subst EXCEPT !.pc = "done", !.sym_mangled = r.s, !.panic = r.panic]
  /\ UNCHANGED <<query, input, pc, iter, err, output, ret, yielded, ops, extra, ref, refRet,
                 panicked, word_list, djb2>>

NextSubst == ApplyLengthPrefix

SpecSubst == InitSubst /\ [][NextSubst]_vars

\* Nesting depth after each prefix of s, "P[" opening and "]" closing a
\* pair; -1 from the first "]" that closes nothing.
RECURSIVE Depths(_, _, _)
Depths(s, k, depth) ==
  IF k > Len(s) THEN <<>>
  ELSE IF s[k] = "]"
       THEN IF depth <= 0 THEN <<-1>> ELSE <<depth - 1>> \o Depths(s, k + 1, depth - 1)
  ELSE IF s[k] = "[" /\ k > 1 /\ s[k - 1] = "P"
       THEN <<depth + 1>> \o Depths(s, k + 1, depth + 1)
  ELSE <<depth>> \o Depths(s, k + 1, depth)

ProperlyMatched(s) ==
  LET d == Depths(s, 1, 0)
  IN Len(d) = Len(s) /\ (s # <<>> => d[Len(d)] = 0)

MaxDepth(s) ==
  LET d == Depths(s, 1, 0)
  IN IF d = <<>> THEN 0 ELSE CHOOSE m \in {d[k] : k \in 1..Len(d)} : \A k \in 1..Len(d) : d[k] <= m

\* What the substitution is to produce on a properly matched string: the
\* first "]" closes the last "P[" before it (an innermost pair); that pair
\* becomes the decimal length of its text followed by the text; repeat.
RECURSIVE LengthPrefixed(_)
LengthPrefixed(s) ==
  LET close == find(s, <<"]">>)
      open == rfind(SubSeq(s, 1, close), <<"P", "[">>)
      text == SubSeq(s, open + 3, close)
  IN IF close = NotFound \/ open = NotFound THEN s
     ELSE LengthPrefixed(SubSeq(s, 1, open) \o to_string(Len(text)) \o text
                           \o SubSeq(s, close + 2, Len(s)))

\* C17: for a candidate with any number of properly matched "P[" ... "]"
\* pairs, none inside another, the substitution returns the candidate with
\* every pair replaced by the decimal length of its text followed by the
\* text, and everything outside the pairs unchanged.
C17_EveryPairLengthPrefixed ==
  (subst.pc = "done" /\ ProperlyMatched(subst.candidate) /\ MaxDepth(subst.candidate) <= 1) =>
    /\ ~subst.panic
    /\ subst.sym_mangled = LengthPrefixed(subst.candidate)

\* C18: for a candidate with properly matched pairs of which one lies
\* inside another, the substitution returns what innermost-to-outermost
\* processing gives: the length of an outer pair counts the substituted
\* text of the pairs inside it.
C18_InnermostFirst ==
  (subst.pc = "done" /\ ProperlyMatched(subst.candidate) /\ MaxDepth(subst.candidate) >= 2) =>
    /\ ~subst.panic
    /\ subst.sym_mangled = LengthPrefixed(subst.candidate)

\* ------------------------------------------------------------------ djb2
MaxHashLen == 2
Bytes == {0, 97, 128, 255}
ByteStrings == UNION {[1..n -> Bytes] : n \in 0..MaxHashLen}
Mario == <<109, 97, 114, 105, 111>>
Seeds == {U32(0), DJB2_HASH_SEED, U32(305419896), <<0, 0, 0, 128>>, <<255, 255, 255, 255>>}

\* hash_djb2(b"mario", 0x12345678) and hash_djb2_default(b"mario")
MarioHash == <<0, 216, 85, 63>>
MarioHashDefault == <<221, 41, 103, 10>>

InitHash ==
  /\ input = [pattern |-> <<>>, escape |-> FALSE]
  /\ pc = "off"
  /\ iter = NoIterator
  /\ err = NoError
  /\ output = <<>>
  /\ ret = NoCall
  /\ yielded = <<>>
  /\ ops = {}
  /\ extra = 0
  /\ ref = NoIterator
  /\ refRet = NoCall
  /\ panicked = FALSE
  /\ query = QueryIdle
  /\ subst = SubstIdle
  /\ word_list = WordListIdle
  /\ \E seed \in Seeds :
       \/ \E s \in ByteStrings, t \in ByteStrings :
            djb2 = [pc |-> "start", s |-> s, t |-> t, seed |-> seed,
                    hash |-> seed, prefix_hash |-> seed, undone |-> seed]
       \/ \E k \in 0..Len(Mario) :
            djb2 = [pc |-> "start", s |-> SubSeq(Mario, 1, k),
                    t |-> SubSeq(Mario, k + 1, Len(Mario)), seed |-> seed,
                    hash |-> seed, prefix_hash |-> seed, undone |-> seed]

\* hash_djb2(s ++ t, seed) and hash_djb2(s, seed)
Hash ==
  /\ djb2.pc = "start"
  /\ djb2' = [djb2 EXCEPT !.pc = "hashed",
                          !.hash = hash_djb2(djb2.s \o djb2.t, djb2.seed),
                          !.prefix_hash = hash_djb2(djb2.s, djb2.seed)]
  /\ UNCHANGED <<query, input, pc, iter, err, output, ret, yielded, ops, extra, ref, refRet,
                 panicked, subst, word_list>>

\* invhash_djb2(t, hash)
Unhash ==
  /\ djb2.pc = "hashed"
  /\ djb2' = [djb2 EXCEPT !.pc = "undone", !.undone = invhash_djb2(djb2.t, djb2.hash)]
  /\ UNCHANGED <<query, input, pc, iter, err, output, ret, yielded, ops, extra, ref, refRet,
                 panicked, subst, word_list>>

NextHash == Hash \/ Unhash

SpecHash == InitHash /\ [][NextHash]_vars

\* C20: invhash_djb2(t, hash_djb2(s ++ t, seed)) = hash_djb2(s, seed) for
\* all byte strings s, t and seeds; with s empty the result is the seed; the
\* hash of the empty string is the seed.
C20_InvhashUndoesSuffix ==
  /\ djb2.pc = "undone" =>
       /\ djb2.undone = djb2.prefix_hash
       /\ (djb2.s = <<>> => djb2.undone = djb2.seed)
  /\ djb2.pc \in {"hashed", "undone"} =>
       /\ (djb2.s = <<>> => djb2.prefix_hash = djb2.seed)
       /\ (djb2.s \o djb2.t = <<>> => djb2.hash = djb2.seed)

\* "ma" ++ "rio" hashed from 0x12345678 to 0x3f55d800, wrapping on the way,
\* and "rio" undone again.
C20_Witness ==
  /\ djb2.pc = "undone"
  /\ djb2.s = SubSeq(Mario, 1, 2)
  /\ djb2.t = SubSeq(Mario, 3, 5)
  /\ djb2.seed = U32(305419896)
  /\ djb2.hash = MarioHash
  /\ djb2.undone # djb2.seed
  /\ hash_djb2(Mario, DJB2_HASH_SEED) = MarioHashDefault

\* ------------------------------------------------------------------ word lists
MaxFileLen == 4
FileAlphabet == {"a", "\\", ",", "{", "}", "\n"}
ShortFiles == UNION {[1..n -> FileAlphabet] : n \in 0..MaxFileLen}

\* A word list one of whose words reads as a reference to another list.
FileScenarioA == <<"W", "[", "g", "]", "\n">>
FileScenarioB == <<"a", "\n", "W", "[", "g", "]">>
FileTexts == ShortFiles \cup {FileScenarioA, FileScenarioB}

NameF == <<"f", ".", "t", "x", "t">>
NameG == <<"g", ".", "t", "x", "t">>
TextG == <<"a", "\n">>

\* "W[f]" names the list under test, "W[h]" a file that does not exist,
\* "W[f" has no closing bracket.
LineF == <<"W", "[", "f", "]">>
LineH == <<"W", "[", "h", "]">>
LineOpen == <<"W", "[", "f">>
WordListLines == {LineF, LineH, LineOpen}

InitWords ==
  /\ input = [pattern |-> <<>>, escape |-> TRUE]
  /\ pc = "line"
  /\ iter = NoIterator
  /\ err = NoError
  /\ output = <<>>
  /\ ret = NoCall
  /\ yielded = <<>>
  /\ ops = {}
  /\ extra = 0
  /\ ref = NoIterator
  /\ refRet = NoCall
  /\ panicked = FALSE
  /\ query = QueryIdle
  /\ subst = SubstIdle
  /\ djb2 = Djb2Idle
  /\ \E line \in WordListLines, text \in FileTexts :
       /\ line # LineF => text = <<>>
       /\ word_list = [pc |-> "line", line |-> line,
                       files |-> [n \in {NameF, NameG} |-> IF n = NameF THEN text ELSE TextG]]

\* process_line_as_pattern up to the call of brace_expand_iter, with
\* escapes on: the word lists are substituted into the line
ApplyWordList ==
  /\ pc = "line"
  /\ word_list.pc = "line"
  /\ word_list' = [word_list EXCEPT !.pc = "done"]
  /\ input' = [pattern |-> apply_square_bracket_word_list_substitution(word_list.line,
                                                                         word_list.files),
               escape |-> TRUE]
  /\ pc' = "new"
  /\ UNCHANGED <<query, iter, err, output, ret, yielded, ops, extra, ref, refRet, panicked,
                 subst, djb2>>

NextWords == ApplyWordList \/ Construct \/ CallNextInto

SpecWords == InitWords /\ [][NextWords]_vars

FileWords == lines(word_list.files[NameF])

\* C19: every word of the list, escaped as the substitution escapes it,
\* tokenizes with escaping on to the single Term that is the word (to no
\* token when the word is empty); and the line "W[f]" of a list with at
\* least one word expands to exactly the words of the list, in file order.
C19_WordListRoundTrip ==
  (word_list.pc = "done" /\ word_list.line = LineF) =>
    /\ \A k \in 1..Len(FileWords) :
         tokenize(escape_word(FileWords[k]), TRUE)
           = IF FileWords[k] = <<>> THEN <<>> ELSE <<Term(FileWords[k])>>
    /\ FileWords # <<>> => pc # "err"
    /\ (FileWords # <<>> /\ pc = "iter" /\ Exhausted) => yielded = FileWords

\* ------------------------------------------------------------------ djb2, numeric suffix
MaxValue == 120
MaxLengthSeed == 2
LargeValues == {999, 1000, 65535, 1000000, 2147483647}
Values == (0..MaxValue) \cup LargeValues

InitHashInt ==
  /\ input = [pattern |-> <<>>, escape |-> FALSE]
  /\ pc = "off"
  /\ iter = NoIterator
  /\ err = NoError
  /\ output = <<>>
  /\ ret = NoCall
  /\ yielded = <<>>
  /\ ops = {}
  /\ extra = 0
  /\ ref = NoIterator
  /\ refRet = NoCall
  /\ panicked = FALSE
  /\ query = QueryIdle
  /\ subst = SubstIdle
  /\ word_list = WordListIdle
  /\ \E value \in Values, seed \in Seeds, length_seed \in 0..MaxLengthSeed :
       djb2 = [pc |-> "start", value |-> value, seed |-> seed, length_seed |-> length_seed,
               hash |-> seed, length |-> length_seed]

\* invhash_djb2_int(value, seed, length_seed)
UnhashInt ==
  /\ djb2.pc = "start"
  /\ LET r == invhash_djb2_int(djb2.value, djb2.seed, djb2.length_seed)
     IN djb2' = [djb2 EXCEPT !.pc = "undone", !.hash = r.hash, !.length = r.length]
  /\ UNCHANGED <<query, input, pc, iter, err, output, ret, yielded, ops, extra, ref, refRet,
                 panicked, subst, word_list>>

NextHashInt == UnhashInt

SpecHashInt == InitHashInt /\ [][NextHashInt]_vars

\* The bytes of value.to_string(): ASCII "0" is 48.
RECURSIVE DigitBytes(_)
DigitBytes(digits) ==
  IF digits = <<>> THEN <<>>
  ELSE <<48 + (CHOOSE d \in 0..9 : to_string(d) = <<Head(digits)>>)>> \o DigitBytes(Tail(digits))

\* C21: invhash_djb2_int(value, seed, length_seed) returns invhash_djb2 of
\* the decimal digits of value from seed, and length_seed plus the number of
\* those digits; 0 is the one digit "0".
C21_InvhashIntIsInvhashOfDigits ==
  djb2.pc = "undone" =>
    /\ djb2.hash = invhash_djb2(DigitBytes(to_string(djb2.value)), djb2.seed)
    /\ djb2.length = djb2.length_seed + Len(to_string(djb2.value))
    /\ djb2.length >= djb2.length_seed + 1

\* A three-digit value with a zero digit, undone from 0x12345678 with a
\* non-zero length seed (the crate's test of 101 with length seed 1).
C21_Witness ==
  /\ djb2.pc = "undone"
  /\ djb2.value = 101
  /\ djb2.seed = U32(305419896)
  /\ djb2.length_seed = 1
  /\ djb2.length = 4
  /\ djb2.hash = invhash_djb2(<<49, 48, 49>>, U32(305419896))
  /\ djb2.hash # djb2.seed

\* ------------------------------------------------------------------ C22
\* A pattern and every pattern below it: the branches of its Choices items,
\* recursively.
RECURSIVE PatternsOf(_)
PatternsOf(ast) ==
  {ast} \cup UNION {UNION {PatternsOf(ast[k].branches[b]) : b \in 1..Len(ast[k].branches)} :
                      k \in {j \in 1..Len(ast) : ast[j].kind = "Choices"}}

AstBuilt == pc \in {"iter", "err"} /\ Parsed.ok

\* C22: every Choices node of every built AST has at least one branch.
C22_ChoicesHasBranch ==
  AstBuilt =>
    \A p \in PatternsOf(Ast) : \A k \in 1..Len(p) :
      p[k].kind = "Choices" => Len(p[k].branches) >= 1

\* ------------------------------------------------------------------ C23
\* C23: in every built AST no pattern, at the top level or in any branch,
\* has two consecutive Leaf items.
C23_NoConsecutiveLeaves ==
  AstBuilt =>
    \A p \in PatternsOf(Ast) : \A k \in 1..(Len(p) - 1) :
      ~(p[k].kind = "Leaf" /\ p[k + 1].kind = "Leaf")

\* A built AST, escaping on, with a Leaf of several characters at the start
\* of a branch and a Choices item right after it.
C23_Witness ==
  /\ AstBuilt
  /\ input.escape
  /\ \E p \in PatternsOf(Ast) :
       /\ p # Ast
       /\ Len(p) >= 2
       /\ p[1].kind = "Leaf"
       /\ Len(p[1].text) >= 2
       /\ p[2].kind = "Choices"

NumOfKind(p, kind) == Cardinality({k \in 1..Len(p) : p[k].kind = kind})

RECURSIVE PairsOf(_, _)
PairsOf(sm, ast) ==
  {[m |-> sm, a |-> ast]} \cup
  UNION {UNION {PairsOf(sm.children[k].children[b], ast[k].branches[b]) :
                  b \in 1..Len(ast[k].branches)} :
           k \in {j \in 1..Len(ast) : ast[j].kind = "Choices"}}

MachinePairs == PairsOf(iter.state_machine, Ast)

\* The odometer carry step on the machine m of pattern a: C is the last
\* child whose own advance returns true.
OdometerCarry(m, a) ==
  LET r == AstStateMachine_advance(m)
      n == Len(m.children)
      adv == [k \in 1..n |-> AstItemStateMachine_advance(m.children[k])]
      moved == {k \in 1..n : adv[k].ok}
      first == AstStateMachine_new(a).children
  IN IF moved = {}
     THEN ~r.ok /\ r.sm.children = first
     ELSE LET C == CHOOSE k \in moved : \A j \in moved : j <= k
          IN /\ r.ok
             /\ Len(r.sm.children) = n
             /\ r.sm.children[C] = adv[C].sm
             /\ r.sm.children[C] # m.children[C]
             /\ \A k \in 1..n :
                  /\ k < C => r.sm.children[k] = m.children[k]
                  /\ k > C => r.sm.children[k] = first[k]

\* C25: in every reachable state, advance on any pattern-level machine is
\* the odometer carry step: if it returns true, the last child able to
\* advance has advanced, the children after it are in their first state and
\* the children before it are unchanged; if it returns false, every child
\* is in its first state.
C25_AdvanceIsOdometerCarry ==
  pc = "iter" => \A p \in MachinePairs : OdometerCarry(p.m, p.a)

\* A root machine with three children in mid-enumeration: the next advance
\* moves the middle child, resets the last and leaves the first.
C25_Witness ==
  /\ pc = "iter"
  /\ ~iter.is_done
  /\ Len(yielded) >= 1
  /\ LET m == iter.state_machine
         r == AstStateMachine_advance(m)
     IN /\ Len(m.children) = 3
        /\ r.ok
        /\ r.sm.children[1] = m.children[1]
        /\ r.sm.children[2] # m.children[2]
        /\ r.sm.children[3] # m.children[3]
        /\ m.children[2].current_index = 0
        /\ r.sm.children[2].current_index = 1
        /\ m.children[3].current_index = 1
        /\ r.sm.children[3].current_index = 0

\* ------------------------------------------------------------------ C26
\* C26: in every reachable state, every branch of every Choices node other
\* than the branch at current_index is in the state it had at construction.
C26_OtherBranchesPristine ==
  pc = "iter" =>
    \A p \in MachinePairs : \A k \in 1..Len(p.a) :
      p.a[k].kind = "Choices" =>
        \A b \in 1..Len(p.a[k].branches) :
          b # p.m.children[k].current_index + 1 =>
            p.m.children[k].children[b] = AstStateMachine_new(p.a[k].branches[b])

\* A Choices node that has moved past a branch holding a group of its own:
\* the branch it left has been enumerated and is pristine again.
C26_Witness ==
  /\ pc = "iter"
  /\ ~iter.is_done
  /\ \E p \in MachinePairs : \E k \in 1..Len(p.a) :
       /\ p.a[k].kind = "Choices"
       /\ p.m.children[k].current_index >= 1
       /\ p.m.children[k].current_index < Len(p.a[k].branches)
       /\ \E b \in 1..p.m.children[k].current_index :
            \E j \in 1..Len(p.a[k].branches[b]) : p.a[k].branches[b][j].kind = "Choices"

\* ------------------------------------------------------------------ C27
\* C27: reset() on any pattern-level machine of any reachable state gives
\* the machine as freshly constructed from its pattern, and a second reset()
\* changes nothing.
C27_ResetRestoresFirstState ==
  pc = "iter" =>
    \A p \in MachinePairs :
      /\ AstStateMachine_reset(p.m) = AstStateMachine_new(p.a)
      /\ AstStateMachine_reset(AstStateMachine_reset(p.m)) = AstStateMachine_reset(p.m)

\* In mid-enumeration, a root machine that differs from the fresh one in a
\* nested Choices node (a branch's own group has moved on).
C27_Witness ==
  /\ pc = "iter"
  /\ ~iter.is_done
  /\ iter.state_machine # AstStateMachine_new(Ast)
  /\ \E p \in MachinePairs :
       /\ p.m # iter.state_machine
       /\ p.m # AstStateMachine_new(p.a)
       /\ \E k \in 1..Len(p.a) : p.a[k].kind = "Choices" /\ p.m.children[k].current_index >= 1

\* ------------------------------------------------------------------ C28
\* What an item contributes in its current state.
ItemText(child) == AstItemStateMachine_fill(child, <<>>)

RECURSIVE ConcatTexts(_, _)
ConcatTexts(children, k) ==
  IF k > Len(children) THEN <<>> ELSE ItemText(children[k]) \o ConcatTexts(children, k + 1)

\* C28: in every reachable state, fill on any machine and any buffer
\* contents returns the buffer contents followed by the machine's current
\* text; a Leaf contributes its contents, a Choices node the text of its
\* current branch, a pattern the texts of its children in order.
C28_FillAppendsOnly ==
  pc = "iter" =>
    \A p \in MachinePairs : \A prior \in {<<>>} \cup JunkBuffers \cup {output} :
      /\ AstStateMachine_fill(p.m, prior) = prior \o AstStateMachine_fill(p.m, <<>>)
      /\ AstStateMachine_fill(p.m, <<>>) = ConcatTexts(p.m.children, 1)
      /\ \A k \in 1..Len(p.m.children) :
           LET child == p.m.children[k] IN
           /\ AstItemStateMachine_fill(child, prior) = prior \o ItemText(child)
           /\ child.kind = "Leaf" => ItemText(child) = child.contents
           /\ (child.kind = "Choices" /\ child.current_index < Len(child.children)) =>
                ItemText(child) = AstStateMachine_fill(child.children[child.current_index + 1], <<>>)

\* A machine of three children whose texts are all non-empty, the last two
\* from groups, filled into a buffer that is not empty.
C28_Witness ==
  /\ pc = "iter"
  /\ ~iter.is_done
  /\ Len(iter.state_machine.children) = 3
  /\ \A k \in 1..3 : ItemText(iter.state_machine.children[k]) # <<>>
  /\ iter.state_machine.children[2].kind = "Choices"
  /\ iter.state_machine.children[3].kind = "Choices"
  /\ \E prior \in JunkBuffers :
       Len(AstStateMachine_fill(iter.state_machine, prior)) = Len(prior) + 3

\* ------------------------------------------------------------------ C29
\* C29: a next_into() call on an iterator that is already done returns
\* false and leaves the caller's buffer, the state tree, is_done and both
\* hints as they were; a buffer that held the last string yielded still
\* holds it.
C29_DoneCallChangesNothing ==
  [][(iter.is_done /\ ret'.op = "next_into" /\ extra' = extra + 1) =>
       /\ ~ret'.some
       /\ output' = ret'.prior
       /\ iter' = iter
       /\ max_expansion_length(iter') = max_expansion_length(iter)
       /\ num_expansions(iter') = num_expansions(iter)
       /\ yielded' = yielded
       /\ (yielded # <<>> /\ ret'.prior = yielded[Len(yielded)]) =>
            output' = yielded[Len(yielded)]]_vars

\* next_into() has been called twice on a done iterator, the second time
\* with the buffer the first left, which holds the last of several strings
\* yielded.
C29_Witness ==
  /\ iter.is_done
  /\ extra >= 2
  /\ ops = {"next_into"}
  /\ ret.op = "next_into"
  /\ ~ret.some
  /\ Len(yielded) >= 2
  /\ ret.prior = yielded[Len(yielded)]
  /\ output = yielded[Len(yielded)]
  /\ output # <<>>

\* ------------------------------------------------------------------ usize counts
\* A usize is its eight bytes, least significant first; a mathematical
\* count is kept in WideBytes bytes, enough for every pattern in the bounds.
UsizeBytes == 8
WideBytes == 20

Limb(a, i) == IF i <= Len(a) THEN a[i] ELSE 0

\* The small number n in w bytes
RECURSIVE limbs_of(_, _)
limbs_of(n, w) == IF w = 0 THEN <<>> ELSE <<n % 256>> \o limbs_of(n \div 256, w - 1)

RECURSIVE add_carry(_, _, _, _, _)
add_carry(a, b, k, carry, w) ==
  IF k > w THEN <<>>
  ELSE LET t == Limb(a, k) + Limb(b, k) + carry
       IN <<t % 256>> \o add_carry(a, b, k + 1, t \div 256, w)

RECURSIVE column(_, _, _, _)
column(a, b, k, i) ==
  IF i > k THEN 0 ELSE Limb(a, i) * Limb(b, k + 1 - i) + column(a, b, k, i + 1)

RECURSIVE mul_carry(_, _, _, _, _)
mul_carry(a, b, k, carry, w) ==
  IF k > w THEN <<>>
  ELSE LET t == column(a, b, k, 1) + carry
       IN <<t % 256>> \o mul_carry(a, b, k + 1, t \div 256, w)

\* a + b and a * b on w-byte integers: the low w bytes, and whether the
\* exact result needs more
add_limbs(a, b, w) ==
  LET full == add_carry(a, b, 1, 0, w + 1)
  IN [value |-> SubSeq(full, 1, w), overflow |-> full[w + 1] # 0]

mul_limbs(a, b, w) ==
  LET full == mul_carry(a, b, 1, 0, 2 * w)
  IN [value |-> SubSeq(full, 1, w), overflow |-> \E k \in (w + 1)..(2 * w) : full[k] # 0]

\* ast_num_expansions in integers of w bytes: .product() folds the items
\* from 1 and .sum() the branches from 0, each from first to last; overflow
\* tells that some intermediate result did not fit.
RECURSIVE ast_num_expansions_limbs(_, _)

add_step(acc, x, w) ==
  LET r == add_limbs(acc.value, x.value, w)
  IN [value |-> r.value, overflow |-> acc.overflow \/ x.overflow \/ r.overflow]

mul_step(acc, x, w) ==
  LET r == mul_limbs(acc.value, x.value, w)
  IN [value |-> r.value, overflow |-> acc.overflow \/ x.overflow \/ r.overflow]

RECURSIVE sum_of_branches_limbs(_, _, _, _)
sum_of_branches_limbs(v, k, acc, w) ==
  IF k > Len(v) THEN acc
  ELSE LET next_acc == add_step(acc, ast_num_expansions_limbs(v[k], w), w)
       IN IF next_acc.overflow \in BOOLEAN
          THEN sum_of_branches_limbs(v, k + 1, next_acc, w)
          ELSE acc

ast_item_num_expansions_limbs(item, w) ==
  IF item.kind = "Leaf" THEN [value |-> limbs_of(1, w), overflow |-> FALSE]
  ELSE sum_of_branches_limbs(item.branches, 1, [value |-> limbs_of(0, w), overflow |-> FALSE], w)

RECURSIVE product_of_items_limbs(_, _, _, _)
product_of_items_limbs(ast, k, acc, w) ==
  IF k > Len(ast) THEN acc
  ELSE LET next_acc == mul_step(acc, ast_item_num_expansions_limbs(ast[k], w), w)
       IN IF next_acc.overflow \in BOOLEAN
          THEN product_of_items_limbs(ast, k + 1, next_acc, w)
          ELSE acc

ast_num_expansions_limbs(ast, w) ==
  product_of_items_limbs(ast, 1, [value |-> limbs_of(1, w), overflow |-> FALSE], w)

\* brace_expand_iter with the count hint in usize arithmetic: an overflow
\* panics in a build with overflow checks and wraps in one without.
brace_expand_iter_usize(pattern, escape, build) ==
  LET tokens == tokenize(pattern, escape)
      ast == ast_from_tokens(tokens)
      num_expansions_hint == ast_num_expansions_limbs(ast.ast, UsizeBytes)
  IN IF ~ast.ok THEN [ok |-> FALSE, panic |-> ast.panic, iter |-> NoIterator, err |-> ast.err]
     ELSE IF num_expansions_hint.overflow /\ build = "debug"
     THEN [ok |-> FALSE, panic |-> TRUE, iter |-> NoIterator, err |-> NoError]
     ELSE [ok |-> TRUE, panic |-> FALSE, err |-> NoError,
           iter |-> BraceExpandIterator_new(AstStateMachine_new(ast.ast),
                                            ast_max_expansion_length(ast.ast),
                                            num_expansions_hint.value)]

MaxGroups == 32
MaxBranches == 4

Repeat(text, n) == [k \in 1..(n * Len(text)) |-> text[((k - 1) % Len(text)) + 1]]

\* n groups side by side, each of m empty alternatives: "{,}{,}..."
GroupPattern(n, m) == Repeat(<<"{">> \o Repeat(<<",">>, m - 1) \o <<"}">>, n)

InitCount ==
  /\ \E n \in 0..MaxGroups, m \in 1..MaxBranches, stray \in BOOLEAN :
       input = [pattern |-> GroupPattern(n, m) \o (IF stray THEN <<"}">> ELSE <<>>),
                escape |-> FALSE]
  /\ pc = "new"
  /\ iter = NoIterator
  /\ err = NoError
  /\ output = <<>>
  /\ ret = NoCall
  /\ yielded = <<>>
  /\ ops = {}
  /\ extra = 0
  /\ ref = NoIterator
  /\ refRet = NoCall
  /\ panicked = FALSE
  /\ query = QueryIdle
  /\ subst = SubstIdle
  /\ word_list = WordListIdle
  /\ djb2 = Djb2Idle

\* brace_expand_iter(input, escape) in either build
ConstructUsize ==
  /\ pc = "new"
  /\ \E build \in Builds :
       LET r == brace_expand_iter_usize(input.pattern, input.escape, build)
       IN /\ pc' = IF r.ok THEN "iter" ELSE IF r.panic THEN "panic" ELSE "err"
          /\ iter' = r.iter
          /\ err' = r.err
          /\ panicked' = r.panic
  /\ UNCHANGED <<query, input, output, ret, yielded, ops, extra, ref, refRet, subst, word_list, djb2>>

NextCount == ConstructUsize

SpecCount == InitCount /\ [][NextCount]_vars

\* The mathematical number of expansions of the built AST.
ExactCount == ast_num_expansions_limbs(Ast, WideBytes)

\* C30: construction fails only with a parse error, never because of the
\* size of the count, and the count hint is the mathematical number of
\* expansions of the AST.
C30_CountHintExact ==
  /\ pc # "panic"
  /\ pc = "err" => ~Parsed.ok
  /\ pc = "iter" =>
       /\ ~ExactCount.overflow
       /\ num_expansions(iter) \o limbs_of(0, WideBytes - UsizeBytes) = ExactCount.value

\* ------------------------------------------------------------------ C31
\* The symbol maps of the queries, each in the orders its iterator may take:
\* no symbol; an unknown symbol late in the expansion and a named one early;
\* two unknown symbols with the same hashes; an unknown symbol that agrees
\* in the mangled hash only and an unknown one early in the expansion; a
\* named and an unknown symbol with the same hashes; an unknown symbol
\* matching a candidate with a length prefix. An unknown symbol has the
\* name "hashname_", its mangled hash, "_", its demangled hash.
QueryMaps(demangler) ==
  LET format_08x(hash) ==
        [k \in 1..8 |-> LET byte == hash[4 - ((k - 1) \div 2)]
                        IN HexLower[(IF k % 2 = 1 THEN byte \div 16 ELSE byte % 16) + 1]]
      hashname(hash_mangled, hash_demangled) ==
        <<"h", "a", "s", "h", "n", "a", "m", "e", "_">> \o format_08x(hash_mangled)
          \o <<"_">> \o format_08x(hash_demangled)
      hashname_of(sym) ==
        hashname(hash_djb2(as_bytes(sym), DJB2_HASH_SEED),
                 hash_djb2(as_bytes(demangle_or_error(sym, demangler)), DJB2_HASH_SEED))
      half_match_of(sym) ==
        hashname(hash_djb2(as_bytes(sym), DJB2_HASH_SEED),
                 hash_djb2(as_bytes(<<"n", "o", "p", "e">>), DJB2_HASH_SEED))
      pair(address, name) == [address |-> address, name |-> name]
      late == hashname_of(<<"C", "F", "v">>)
      twice == hashname_of(<<"C", "F", "R", "C", "b">>)
      both == <<"C", "F", "P", "c">>
  IN {<<>>,
      <<pair(1, late), pair(2, <<"F", "s">>)>>,
      <<pair(2, <<"F", "s">>), pair(1, late)>>,
      <<pair(1, twice), pair(2, twice)>>,
      <<pair(2, twice), pair(1, twice)>>,
      <<pair(1, half_match_of(<<"C", "F", "f">>)),
        pair(2, hashname_of(<<"F", "v">>))>>,
      <<pair(1, both), pair(2, hashname_of(both))>>,
      <<pair(1, hashname_of(<<"2", "a", "b">>))>>}

\* The lines of the queries: a shorthand, a group of two candidates with a
\* length prefix to substitute, and a pattern that does not parse.
QueryLines ==
  {<<"E", "N", "D", "1">>,
   <<"{", "P", "[", "a", "b", "]", ",", "]", "P", "[", "}">>,
   <<"a", "}">>}

NoCandidate ==
  [some |-> FALSE, i |-> 0, candidate |-> <<>>, sym_mangled |-> <<>>,
   echo_interval_fudge |-> 0, found |-> 0, echoed |-> FALSE]

InitQuery ==
  /\ input = [pattern |-> <<>>, escape |-> FALSE]
  /\ pc = "query"
  /\ iter = NoIterator
  /\ err = NoError
  /\ output = <<>>
  /\ ret = NoCall
  /\ yielded = <<>>
  /\ ops = {}
  /\ extra = 0
  /\ ref = NoIterator
  /\ refRet = NoCall
  /\ panicked = FALSE
  /\ subst = SubstIdle
  /\ word_list = WordListIdle
  /\ djb2 = Djb2Idle
  /\ \E line \in QueryLines, escaping_enabled \in BOOLEAN, build \in Builds,
        demangler \in Demanglers :
       \E basic_map \in QueryMaps(demangler) :
         query = [pc |-> "line", line |-> line, escaping_enabled |-> escaping_enabled,
                  build |-> build, demangler |-> demangler, basic_map |-> basic_map,
                  db |-> SymbolDatabase_new(basic_map, demangler),
                  next_i |-> 0, echo_interval_fudge |-> 0, newly_found_syms |-> <<>>,
                  last |-> NoCandidate]

\* process_line_as_pattern(line, db, escaping_enabled) up to its loop
StartQuery ==
  /\ query.pc = "line"
  /\ LET line == apply_square_bracket_word_list_substitution(
                   apply_pattern_shorthands(query.line), [n \in {} |-> <<>>])
         r == brace_expand_iter(line, query.escaping_enabled)
     IN /\ input' = [pattern |-> line, escape |-> query.escaping_enabled]
        /\ iter' = r.iter
        /\ err' = r.err
        /\ panicked' = r.panic
        /\ output' = <<>>
        /\ query' = [query EXCEPT !.pc = IF r.ok THEN "loop"
                                         ELSE IF r.panic THEN "panic" ELSE "err"]
  /\ UNCHANGED <<pc, ret, yielded, ops, extra, ref, refRet, subst, word_list, djb2>>

\* One turn of `while iter.next_into(&mut sym_mangled) { ... }`: the call of
\* next_into and, when it returns true, the body
CheckCandidate ==
  /\ query.pc = "loop"
  /\ LET r == next_into(iter, output)
         c == check_candidate(query.db, query.demangler, query.build, r.output,
                              query.next_i, query.echo_interval_fudge,
                              query.newly_found_syms)
     IN /\ iter' = r.self
        /\ IF r.panic \/ ~r.ret
           THEN /\ output' = r.output
                /\ panicked' = r.panic
                /\ yielded' = yielded
                /\ query' = [query EXCEPT !.pc = IF r.panic THEN "panic" ELSE "done"]
           ELSE /\ output' = c.sym_mangled
                /\ panicked' = c.panic
                /\ yielded' = Append(yielded, r.output)
                /\ query' = [query EXCEPT
                     !.pc = IF c.panic THEN "panic" ELSE "loop",
                     !.next_i = query.next_i + 1,
                     !.echo_interval_fudge = c.echo_interval_fudge,
                     !.newly_found_syms = c.newly_found_syms,
                     !.last = [some |-> TRUE, i |-> query.next_i, candidate |-> r.output,
                               sym_mangled |-> c.sym_mangled,
                               echo_interval_fudge |-> query.echo_interval_fudge,
                               found |-> Len(query.newly_found_syms),
                               echoed |-> c.echoed]]
  /\ UNCHANGED <<input, pc, err, ret, ops, extra, ref, refRet, subst, word_list, djb2>>

NextQuery == StartQuery \/ CheckCandidate

SpecQuery == InitQuery /\ [][NextQuery]_vars

\* The entries of the symbol map, in its order, that have no name and both
\* hashes of sym, each with the two texts recorded for it.
UnknownMatches(basic_map, demangler, sym) ==
  LET sym_demangled == demangle_or_error(sym, demangler)
      hash_mangled == hash_djb2(as_bytes(sym), DJB2_HASH_SEED)
      hash_demangled == hash_djb2(as_bytes(sym_demangled), DJB2_HASH_SEED)
      entries == [k \in 1..Len(basic_map) |->
                    SymbolDatabaseEntry(basic_map[k].address, basic_map[k].name, demangler)]
      matches(entry) == /\ ~entry.mangled_name.some
                        /\ entry.mangled_hash = hash_mangled
                        /\ entry.demangled_hash = hash_demangled
      found == SelectSeq(entries, matches)
  IN [k \in 1..Len(found) |->
        [sym |-> found[k], name_mangled |-> sym, name_demangled |-> sym_demangled]]

\* C31: every turn of the candidate loop that completes its body appends to
\* newly_found_syms exactly the nameless entries of the database whose
\* mangled and demangled hash are those of the candidate, nothing when there
\* is none, whether or not the candidate is echoed; the turn that ends the
\* loop appends nothing.
C31_ShortcutsHideNoMatch ==
  [][(query.pc = "loop" /\ query'.pc \in {"loop", "done"}) =>
       query'.newly_found_syms =
         IF query'.pc = "done" THEN query.newly_found_syms
         ELSE query.newly_found_syms
                \o UnknownMatches(query.basic_map, query.demangler,
                                  query'.last.sym_mangled)]_vars

\* A candidate past the first ONLY_ECHO_FIRST, no echo due when its turn
\* began, that was recorded.
C31_Witness ==
  /\ query.pc = "loop"
  /\ query.last.some
  /\ query.last.i >= ONLY_ECHO_FIRST
  /\ (query.last.i + query.last.echo_interval_fudge) % ECHO_INTERVAL # 0
  /\ Len(query.newly_found_syms) > query.last.found
  /\ query.last.echoed

\* ------------------------------------------------------------------ C32
\* The state between two pulls: the iterator was constructed, did not
\* panic, and its last root advance, if any, returned true.
BetweenPulls == pc = "iter" /\ ~iter.is_done /\ ~panicked

\* The contents of the Leaf nodes on the selected path, in order, whatever
\* their valid flags say.
RECURSIVE SelectedPathText(_, _)
SelectedPathText(children, k) ==
  IF k > Len(children) THEN <<>>
  ELSE LET child == children[k]
           own == IF child.kind = "Leaf" THEN child.contents
                  ELSE IF child.current_index < Len(child.children)
                  THEN SelectedPathText(child.children[child.current_index + 1].children, 1)
                  ELSE <<>>
       IN own \o SelectedPathText(children, k + 1)

\* C32: between pulls every Leaf of the state tree is valid, every Choices
\* node with a branch has current_index below its number of branches, and
\* the string the next pull yields is the text of every Leaf on the
\* selected path.
C32_BetweenPullsAllValid ==
  BetweenPulls =>
    /\ \A p \in MachinePairs : \A k \in 1..Len(p.m.children) :
         LET child == p.m.children[k] IN
         /\ child.kind = "Leaf" => child.valid
         /\ (child.kind = "Choices" /\ Len(child.children) >= 1) =>
              child.current_index < Len(child.children)
    /\ AstStateMachine_fill(iter.state_machine, <<>>) =
         SelectedPathText(iter.state_machine.children, 1)

\* Between pulls with strings already yielded: a group has moved on from a
\* branch that holds a Leaf, and a Leaf right after the group has been
\* advanced and reset.
C32_Witness ==
  /\ BetweenPulls
  /\ Len(yielded) >= 1
  /\ \E k \in 1..(Len(iter.state_machine.children) - 1) :
       LET group == iter.state_machine.children[k]
           after == iter.state_machine.children[k + 1]
       IN /\ group.kind = "Choices"
          /\ group.current_index >= 1
          /\ group.current_index < Len(group.children)
          /\ \E j \in 1..Len(group.children[1].children) :
               group.children[1].children[j].kind = "Leaf"
          /\ after.kind = "Leaf"
          /\ after.valid

UnmatchedOpens(tokens) ==
  {i \in 0..(Len(tokens) - 1) :
     TokenAt(tokens, i) = OpenBrace /\ MatchClose(tokens, i + 1, 1) = -1}

\* C34: on every token sequence the builder returns without slicing or
\* indexing the tokens out of range, from the start and from every suffix
\* the descent can be entered with; the error of a failed construction
\* names a valid index; and when no CloseBrace or Comma lies outside every
\* group, the counter returned is the number of tokens plus one for every
\* group that is never closed.
C34_BuilderStaysInRange ==
  pc # "new" =>
    LET r == ast_from_tokens_partial(Tokens) IN
    /\ pc # "panic"
    /\ ~r.panic
    /\ ~Parsed.panic
    /\ \A i \in 0..Len(Tokens) :
         /\ ~ast_from_tokens_partial(Slice(Tokens, i)).panic
         /\ ~choices_from_tokens_partial(Slice(Tokens, i)).panic
    /\ pc = "err" => (err.found /\ IndexInRange(Tokens, err.position) /\ err.position = r.size)
    /\ FirstStray(Tokens, 0) = -1 =>
         r.size = Len(Tokens) + Cardinality(UnmatchedOpens(Tokens))

\* An accepted pattern with a closed group first and then two groups, one
\* inside the other, that are never closed: the counter is two past the
\* number of tokens.
C34_Witness ==
  /\ pc = "iter"
  /\ Len(Tokens) >= 3
  /\ TokenAt(Tokens, 0) = OpenBrace
  /\ MatchClose(Tokens, 1, 1) # -1
  /\ Cardinality(UnmatchedOpens(Tokens)) = 2
  /\ ast_from_tokens_partial(Tokens).size = Len(Tokens) + 2

====
